---- MODULE Spec2Model ----
(***************************************************************************)
(* Model of the sanitize-text detection and replacement core:              *)
(*   sanitize_text/utils/post_processors.py   HashedPIIReplacer            *)
(*   sanitize_text/utils/custom_detectors/    entity, markdown, IP         *)
(*   sanitize_text/core/scrubber.py           setup_scrubber               *)
(* A Python str is a sequence of one-character strings.  Characters that   *)
(* are not ASCII are written as named tokens ("o_dacute" is U+0151).       *)
(***************************************************************************)
EXTENDS Integers, Sequences, FiniteSets, TLC

VARIABLES
    replacer,      \* a HashedPIIReplacer: seen_values, counter, algorithm, modulus
    processed,     \* the list returned by the last process_filth call
    issued,        \* every filth the replacer instance has finalized
    alphabet,      \* the characters a document under test is typed from
    resource,      \* the entity JSON file a detector under test is built from
    detector,      \* the detector under test
    document,      \* the text handed to iter_filth
    yielded,       \* [done, raised, out]: what the iter_filth call produced
    data_dir,      \* sanitize_text/data: the entity JSON file of each locale and category
    scrubadub_spacy,        \* whether the optional scrubadub_spacy package imports
    dutch_loaded_entities,  \* DutchEntityDetector._dutch_loaded_entities
    last_run,      \* the last pipeline run: its arguments, scrubber and filths
    pc,            \* where each concurrent setup_scrubber call stands
    building       \* per concurrent call: the entity lists built, and those pending

replacerVars == <<replacer, processed, issued>>

detectVars == <<alphabet, resource, detector, document, yielded>>

pipelineVars == <<data_dir, scrubadub_spacy, dutch_loaded_entities, last_run, pc, building>>

vars == <<replacer, processed, issued, alphabet, resource, detector, document, yielded,
          data_dir, scrubadub_spacy, dutch_loaded_entities, last_run, pc, building>>

-----------------------------------------------------------------------------
(* Characters                                                              *)

LowerAscii == <<"a","b","c","d","e","f","g","h","i","j","k","l","m",
                "n","o","p","q","r","s","t","u","v","w","x","y","z">>

UpperAscii == <<"A","B","C","D","E","F","G","H","I","J","K","L","M",
                "N","O","P","Q","R","S","T","U","V","W","X","Y","Z">>

DigitChars == <<"0","1","2","3","4","5","6","7","8","9">>

\* U+00E9 / U+00C9: letters inside the Latin-1 ranges of letters_pattern.
Latin1Lower == {"e_acute"}
Latin1Upper == {"E_acute"}

\* U+0151 / U+0150: letters with a diacritic outside Latin-1.
ExtLower == {"o_dacute"}
ExtUpper == {"O_dacute"}

\* "I_dot" is U+0130, "COMB_DOT" is U+0307 (a combining mark, not a letter).

\* U+200B, U+200C, U+200D, U+2060, U+00AD
ZeroWidthChars == {"ZWSP", "ZWNJ", "ZWJ", "WJ", "SHY"}

SpaceChars == {" ", "\n", "\r", "\t"}

Range(s) == {s[i] : i \in DOMAIN s}

IndexOf(s, c) == CHOOSE i \in DOMAIN s : s[i] = c

\* The character sets and the case tables, computed once.
LowerLetters == Range(LowerAscii)
UpperLetters == Range(UpperAscii)
Digits == Range(DigitChars)
UpperChars == UpperLetters \cup Latin1Upper \cup ExtUpper \cup {"I_dot"}
LowerChars == LowerLetters \cup Latin1Lower \cup ExtLower
LowerOf == [c \in UpperLetters |-> LowerAscii[IndexOf(UpperAscii, c)]]
UpperOf == [c \in LowerLetters |-> UpperAscii[IndexOf(LowerAscii, c)]]

IsUpperChar(c) == c \in UpperChars

IsLowerChar(c) == c \in LowerChars

\* str.isalpha() of one character
IsAlphaChar(c) == IsUpperChar(c) \/ IsLowerChar(c)

IsDigitChar(c) == c \in Digits

\* str.isspace() of one character
IsSpaceChar(c) == c \in SpaceChars

\* str.lower() of one character
LowerChar(c) ==
    IF c \in UpperLetters THEN LowerOf[c]
    ELSE IF c = "E_acute" THEN "e_acute"
    ELSE IF c = "O_dacute" THEN "o_dacute"
    ELSE c

\* str.upper() of one character
UpperChar(c) ==
    IF c \in LowerLetters THEN UpperOf[c]
    ELSE IF c = "e_acute" THEN "E_acute"
    ELSE IF c = "o_dacute" THEN "O_dacute"
    ELSE c

-----------------------------------------------------------------------------
(* Strings                                                                 *)

\* str.lower(): U+0130 lowers to the two code points U+0069 U+0307
RECURSIVE Lower(_)
Lower(s) ==
    IF s = <<>> THEN <<>>
    ELSE (IF Head(s) = "I_dot" THEN <<"i", "COMB_DOT">> ELSE <<LowerChar(Head(s))>>)
         \o Lower(Tail(s))

\* str.upper()
Upper(s) == [i \in DOMAIN s |-> UpperChar(s[i])]

\* s[a:b] with 0-based, half-open, clamped Python slice bounds
Slice(s, a, b) ==
    LET lo == IF a < 0 THEN 0 ELSE a
        hi == IF b > Len(s) THEN Len(s) ELSE b
    IN  IF lo >= hi THEN <<>> ELSE SubSeq(s, lo + 1, hi)

\* s.startswith(p)
StartsWith(s, p) == Len(p) <= Len(s) /\ SubSeq(s, 1, Len(p)) = p

\* p in s
Contains(s, p) ==
    \E i \in 0..(Len(s) - Len(p)) : SubSeq(s, i + 1, i + Len(p)) = p

\* s.find(p, pos): the least 0-based index >= pos where p occurs, else -1
Find(s, p, pos) ==
    LET hits == {i \in pos..(Len(s) - Len(p)) : SubSeq(s, i + 1, i + Len(p)) = p}
    IN  IF hits = {} THEN -1 ELSE CHOOSE i \in hits : \A j \in hits : i <= j

\* str.islower(): a cased character exists and none is upper case
IsLowerStr(s) ==
    /\ \E i \in DOMAIN s : IsLowerChar(s[i])
    /\ \A i \in DOMAIN s : ~IsUpperChar(s[i])

\* any(char.isalpha() for char in s)
AnyAlpha(s) == \E i \in DOMAIN s : IsAlphaChar(s[i])

\* s.replace(c, "") for one character c
RECURSIVE RemoveChar(_, _)
RemoveChar(s, c) ==
    IF s = <<>> THEN <<>>
    ELSE IF Head(s) = c THEN RemoveChar(Tail(s), c)
    ELSE <<Head(s)>> \o RemoveChar(Tail(s), c)

\* "c" * n
RECURSIVE Repeat(_, _)
Repeat(c, n) == IF n <= 0 THEN <<>> ELSE <<c>> \o Repeat(c, n - 1)

\* str(n) for n >= 0
RECURSIVE StrOfNat(_)
StrOfNat(n) ==
    IF n < 10 THEN <<DigitChars[n + 1]>>
    ELSE StrOfNat(n \div 10) \o <<DigitChars[(n % 10) + 1]>>

\* f"{n:0{width}d}" for n >= 0
ZeroPad(n, width) ==
    LET d == StrOfNat(n)
    IN  Repeat("0", width - Len(d)) \o d

-----------------------------------------------------------------------------
(* Filth objects (sanitize_text/utils/filth.py)                            *)

NoneValue == <<"<None>">>

T_name == <<"n","a","m","e">>
T_location == <<"l","o","c","a","t","i","o","n">>
T_organization == <<"o","r","g","a","n","i","z","a","t","i","o","n">>
T_markdown_url == <<"m","a","r","k","d","o","w","n","_","u","r","l">>
T_url == <<"u","r","l">>
T_private_ip == <<"p","r","i","v","a","t","e","_","i","p">>
T_public_ip == <<"p","u","b","l","i","c","_","i","p">>
T_custom == <<"c","u","s","t","o","m">>

\* The class attribute `type` of each Filth subclass.
FilthType(cls) ==
    CASE cls = "LocationFilth" -> T_location
      [] cls = "OrganizationFilth" -> T_organization
      [] cls = "NameFilth" -> T_name
      [] cls = "PrivateIPFilth" -> T_private_ip
      [] cls = "PublicIPFilth" -> T_public_ip
      [] cls = "MarkdownUrlFilth" -> T_markdown_url
      [] cls = "UrlFilth" -> T_url
      [] cls = "CustomWordFilth" -> T_custom

\* A Filth subclass without an __init__ of its own.
Filth(cls, beg, end, text, detector_name) ==
    [cls |-> cls, type |-> FilthType(cls), beg |-> beg, end |-> end,
     text |-> text, detector_name |-> detector_name,
     replacement_string |-> NoneValue]

\* MarkdownUrlFilth.__init__(*args, link_text, url, **kwargs): link_text and
\* url are stored; every other keyword, bracket_pairs included, is handed to
\* the base constructor, which keeps beg, end, text and detector_name only.
MarkdownUrlFilth(beg, end, text, link_text, url, bracket_pairs, detector_name) ==
    [cls |-> "MarkdownUrlFilth", type |-> T_markdown_url, beg |-> beg, end |-> end,
     text |-> text, detector_name |-> detector_name,
     replacement_string |-> NoneValue,
     link_text |-> link_text, url |-> url]

\* getattr(obj, name, default)
GetAttr(obj, name, default) == IF name \in DOMAIN obj THEN obj[name] ELSE default

-----------------------------------------------------------------------------
(* HashedPIIReplacer (sanitize_text/utils/post_processors.py)              *)

CharTable ==
    LowerAscii \o UpperAscii \o DigitChars \o
    <<" ", "\n", "\r", "\t", ":", "/", ".", "-", "_", "[", "]", "(", ")", "<", ">",
      "&", ";", ",", "e_acute", "E_acute", "o_dacute", "O_dacute", "I_dot",
      "COMB_DOT", "ZWSP", "ZWNJ", "ZWJ", "WJ", "SHY">>

CharCodes == [c \in Range(CharTable) |-> IndexOf(CharTable, c)]

CharCode(c) == IF c \in DOMAIN CharCodes THEN CharCodes[c] ELSE 0

RECURSIVE DigestFold(_, _, _)
DigestFold(key, mult, h) ==
    IF key = <<>> THEN h
    ELSE DigestFold(Tail(key), mult, (h * mult + CharCode(Head(key))) % 65521)

\* int(hashlib.<algorithm>(key.encode()).hexdigest(), 16): hashlib is a
\* library; a deterministic digest of the key's characters stands for it,
\* one per algorithm ("sha256", anything else is md5).
HexDigestInt(alg, key) ==
    IF alg = "sha256" THEN DigestFold(key, 131, 7) ELSE DigestFold(key, 31, 0)

S_http == <<"h","t","t","p",":","/","/">>
S_https == <<"h","t","t","p","s",":","/","/">>
S_ftp == <<"f","t","p",":","/","/">>
S_www == <<"w","w","w",".">>
S_sharepoint_slash == <<"s","h","a","r","e","p","o","i","n","t",".","c","o","m","/">>
S_URL == <<"U","R","L">>

\* is_urlish without its markdown-link test.
IsUrlishPrefixOnly(text) ==
    LET lower_text == Lower(text)
    IN  \/ StartsWith(lower_text, S_http)
        \/ StartsWith(lower_text, S_https)
        \/ StartsWith(lower_text, S_ftp)
        \/ StartsWith(lower_text, S_www)
        \/ Contains(lower_text, S_sharepoint_slash)

\* is_urlish of process_filth
IsUrlish(text) ==
    LET lower_text == Lower(text)
        compact == RemoveChar(lower_text, " ")
    IN  \/ StartsWith(lower_text, S_http)
        \/ StartsWith(lower_text, S_https)
        \/ StartsWith(lower_text, S_ftp)
        \/ StartsWith(lower_text, S_www)
        \/ Contains(lower_text, S_sharepoint_slash)
        \/ /\ StartsWith(compact, <<"[">>)
           /\ Contains(compact, <<"]", "(">>)
           /\ Contains(compact, <<":", "/", "/">>)

\* placeholder_type of process_filth
PlaceholderType(filth) ==
    IF filth.type = T_markdown_url \/ IsUrlish(filth.text)
    THEN S_URL ELSE Upper(filth.type)

\* len(str(n)) for an integer n, the sign included
StrLenOfInt(n) == IF n < 0 THEN 1 + Len(StrOfNat(0 - n)) ELSE Len(StrOfNat(n))

\* A replacer that pads every number to three digits.
NewPlaceholderWidth3(self, filth) ==
    LET key == filth.type \o <<":">> \o filth.text
        hash_val == HexDigestInt(self.algorithm, key) % self.modulus
    IN  PlaceholderType(filth) \o <<"-">> \o ZeroPad(hash_val, 3)

\* The placeholder computed for a key that is not in seen_values.
NewPlaceholder(self, filth) ==
    LET key == filth.type \o <<":">> \o filth.text
        hash_val == HexDigestInt(self.algorithm, key) % self.modulus
        m1 == StrLenOfInt(self.modulus - 1)
        width == IF m1 > 3 THEN m1 ELSE 3
    IN  PlaceholderType(filth) \o <<"-">> \o ZeroPad(hash_val, width)

\* A replacer that numbers its placeholders with self.counter and never
\* looks a key up.
ProcessOneCounter(self, filth) ==
    LET placeholder == PlaceholderType(filth) \o <<"-">> \o ZeroPad(self.counter, 3)
    IN  [self |-> [self EXCEPT !.counter = (@ % 9) + 1],
         filth |-> [filth EXCEPT !.replacement_string = placeholder]]

\* One iteration of the loop of process_filth.
ProcessOne(self, filth) ==
    LET key == filth.type \o <<":">> \o filth.text
        seen == IF key \in DOMAIN self.seen_values
                THEN self.seen_values
                ELSE (key :> NewPlaceholder(self, filth)) @@ self.seen_values
        placeholder == seen[key]
        pairs == GetAttr(filth, "bracket_pairs", 1)
        replacement ==
            IF filth.cls = "MarkdownUrlFilth"
            THEN Repeat("[", pairs) \o filth.link_text \o Repeat("]", pairs)
                 \o <<"(">> \o placeholder \o <<")">>
            ELSE placeholder
    IN  [self |-> [self EXCEPT !.seen_values = seen],
         filth |-> [filth EXCEPT !.replacement_string = replacement]]

\* HashedPIIReplacer.process_filth: the loop over filth_list.
RECURSIVE ProcessFilth(_, _)
ProcessFilth(self, filth_list) ==
    IF filth_list = <<>> THEN [self |-> self, out |-> <<>>]
    ELSE LET one == ProcessOne(self, Head(filth_list))
             rest == ProcessFilth(one.self, Tail(filth_list))
         IN  [self |-> rest.self, out |-> <<one.filth>> \o rest.out]

\* HashedPIIReplacer.__init__
NewReplacer(alg, modulus_arg) ==
    [seen_values |-> <<>>, counter |-> 1, algorithm |-> alg,
     modulus |-> IF modulus_arg > 1 THEN modulus_arg ELSE 1]

-----------------------------------------------------------------------------
(* JSONEntityDetector (sanitize_text/utils/custom_detectors/base.py)       *)

\* str.strip()
RECURSIVE LStrip(_)
LStrip(s) == IF s # <<>> /\ IsSpaceChar(Head(s)) THEN LStrip(Tail(s)) ELSE s

RECURSIVE RStrip(_)
RStrip(s) ==
    IF s # <<>> /\ IsSpaceChar(s[Len(s)]) THEN RStrip(SubSeq(s, 1, Len(s) - 1)) ELSE s

Strip(s) == RStrip(LStrip(s))

\* The loop of _load_json_entities over the parsed entries, from entry i on.
\* An entry is [match |-> str] or an object json.load accepts that has no
\* string "match" ([bad |-> TRUE]): reading it raises, which ends the loop
\* and keeps what was appended before.
RECURSIVE LoadEntries(_, _, _)
LoadEntries(entries, i, common_words) ==
    IF i > Len(entries) THEN <<>>
    ELSE IF "match" \notin DOMAIN entries[i] THEN <<>>
    ELSE LET match == Strip(entries[i].match)
             rest == LoadEntries(entries, i + 1, common_words)
         IN  IF \/ Len(match) <= 1
                \/ Lower(match) \in common_words
                \/ ~AnyAlpha(match)
             THEN rest
             ELSE <<match>> \o rest

\* JSONEntityDetector._load_json_entities: self.entities for a resource
\* file [exists, valid, entries].
JSONLoadEntities(file, common_words) ==
    IF ~file.exists THEN <<>>
    ELSE IF ~file.valid THEN <<>>
    ELSE LoadEntries(file.entries, 1, common_words)

\* _build_automaton: _entity_map, lowercase -> original, the entity added
\* last winning; the empty map stands for self._automaton = None.
BuildAutomaton(entities) ==
    [k \in {Lower(entities[i]) : i \in DOMAIN entities} |->
        entities[CHOOSE i \in DOMAIN entities :
                    /\ Lower(entities[i]) = k
                    /\ \A j \in DOMAIN entities : Lower(entities[j]) = k => j <= i]]

\* _build_automaton: _multi_word_entities
MultiWordEntities(entities) ==
    {Lower(entities[i]) : i \in {j \in DOMAIN entities : " " \in Range(entities[j])}}

\* letters_pattern = r"[0-9A-Za-zÀ-ÖØ-öø-ÿ]"
LettersPattern(c) ==
    \/ IsDigitChar(c)
    \/ c \in LowerLetters \cup UpperLetters
    \/ c \in Latin1Lower \cup Latin1Upper

\* \w of the re module for str patterns
IsWordChar(c) == IsAlphaChar(c) \/ IsDigitChar(c) \/ c = "_"

\* re.search(r"\.[a-z]{2,15}(?:/|\b)", token)
DomainLike(token) ==
    \E i \in DOMAIN token :
        /\ token[i] = "."
        /\ \E k \in 2..15 :
              /\ i + k <= Len(token)
              /\ \A j \in (i + 1)..(i + k) : token[j] \in LowerLetters
              /\ \/ i + k = Len(token)
                 \/ token[i + k + 1] = "/"
                 \/ ~IsWordChar(token[i + k + 1])

TokenBreak(c) == IsSpaceChar(c) \/ c \in {"[", "]", "(", ")", "<", ">"}

\* while l_pos > 0 and not text[l_pos - 1].isspace() and text[l_pos - 1] not in "[]()<>"
RECURSIVE ExpandLeft(_, _)
ExpandLeft(text, l_pos) ==
    IF l_pos > 0 /\ ~TokenBreak(text[l_pos]) THEN ExpandLeft(text, l_pos - 1) ELSE l_pos

\* while r_pos < len(text) and not text[r_pos].isspace() and text[r_pos] not in "[]()<>"
RECURSIVE ExpandRight(_, _)
ExpandRight(text, r_pos) ==
    IF r_pos < Len(text) /\ ~TokenBreak(text[r_pos + 1])
    THEN ExpandRight(text, r_pos + 1) ELSE r_pos

\* The URL / markdown context test on the token around [start, end)
InUrlContext(text, start, end) ==
    LET token == Lower(Slice(text, ExpandLeft(text, start), ExpandRight(text, end)))
    IN  \/ Contains(token, <<":", "/", "/">>)
        \/ StartsWith(token, S_www)
        \/ DomainLike(token)

\* self._automaton.iter(text_lower): pairs <<end_idx, original_entity>>, the
\* 0-based index of the last character of an occurrence of a key.
AutomatonHits(automaton, text_lower) ==
    UNION {{<<e, automaton[k]>> :
              e \in {x \in (Len(k) - 1)..(Len(text_lower) - 1) :
                        SubSeq(text_lower, x - Len(k) + 2, x + 1) = k}} :
           k \in DOMAIN automaton}

\* The filters of the automaton loop after the seen_spans test, for one hit.
AcceptAutomatonHit(det, text, start_idx, end_idx, original_entity) ==
    LET matched_text == Slice(text, start_idx, end_idx + 1)
    IN  /\ ~(start_idx > 0 /\ LettersPattern(text[start_idx]))
        /\ ~(end_idx + 1 < Len(text) /\ LettersPattern(text[end_idx + 2]))
        /\ ~InUrlContext(text, start_idx, end_idx + 1)
        /\ ~(Len(original_entity) <= 3 /\ IsLowerStr(matched_text))
        /\ ~(IsLowerStr(matched_text) /\ Lower(matched_text) \in det.COMMON_WORDS)
        /\ ~(det.name \in {T_organization, T_location} /\ IsLowerStr(matched_text))
        /\ AnyAlpha(matched_text)

\* text[start_idx - 1] of the first word-boundary test raises IndexError
\* when the span computed on text.lower() starts beyond the end of text.
HitRaises(text, start_idx) == start_idx > 0 /\ start_idx - 1 >= Len(text)


\* The hits in the order the automaton yields them: by end index, and at one
\* end index the longer entity first.
RECURSIVE HitSeq(_)
HitSeq(hits) ==
    IF hits = {} THEN <<>>
    ELSE LET h == CHOOSE x \in hits : \A y \in hits :
                     \/ x[1] < y[1]
                     \/ (x[1] = y[1] /\ Len(x[2]) >= Len(y[2]))
         IN  <<h>> \o HitSeq(hits \ {h})

\* The automaton loop of iter_filth from hit i on: seen_spans and candidates.
RECURSIVE AutomatonLoop(_, _, _, _, _)
AutomatonLoop(det, text, hits, i, acc) ==
    IF i > Len(hits) THEN acc
    ELSE LET end_idx == hits[i][1]
             original_entity == hits[i][2]
             start_idx == end_idx - Len(original_entity) + 1
             span == <<start_idx, end_idx + 1>>
         IN  IF span \in acc.seen_spans THEN AutomatonLoop(det, text, hits, i + 1, acc)
             ELSE IF HitRaises(text, start_idx) THEN [acc EXCEPT !.raised = TRUE]
             ELSE IF AcceptAutomatonHit(det, text, start_idx, end_idx, original_entity)
             THEN AutomatonLoop(det, text, hits, i + 1,
                      [acc EXCEPT !.seen_spans = @ \cup {span},
                                  !.candidates = Append(@,
                                      <<start_idx, end_idx + 1,
                                        Slice(text, start_idx, end_idx + 1)>>)])
             ELSE AutomatonLoop(det, text, hits, i + 1, acc)

\* _strip_zw
RECURSIVE StripZW(_)
StripZW(s) ==
    IF s = <<>> THEN <<>>
    ELSE IF Head(s) \in ZeroWidthChars THEN StripZW(Tail(s))
    ELSE <<Head(s)>> \o StripZW(Tail(s))

S_amp == <<"&","a","m","p",";">>

\* re.sub(r"&amp;|&", " en ", s, flags=re.IGNORECASE)
RECURSIVE SubAmp(_)
SubAmp(s) ==
    IF s = <<>> THEN <<>>
    ELSE IF Head(s) = "&"
         THEN IF Len(s) >= 5 /\ [i \in 1..5 |-> LowerChar(s[i])] = S_amp
              THEN <<" ","e","n"," ">> \o SubAmp(SubSeq(s, 6, Len(s)))
              ELSE <<" ","e","n"," ">> \o SubAmp(Tail(s))
         ELSE <<Head(s)>> \o SubAmp(Tail(s))

\* re.sub(r"\s+", " ", s)
RECURSIVE SquashWS(_)
SquashWS(s) ==
    IF s = <<>> THEN <<>>
    ELSE IF IsSpaceChar(Head(s))
         THEN <<" ">> \o SquashWS(LStrip(s))
         ELSE <<Head(s)>> \o SquashWS(Tail(s))

\* _collapse_ws
CollapseWS(s) == Strip(SquashWS(s))

\* _normalize_for_entity
NormalizeForEntity(s) == Lower(CollapseWS(SubAmp(StripZW(s))))

\* The first loop of _map_normalized_span: [j, norm_count] when it ends.
RECURSIVE MapStart(_, _, _, _)
MapStart(text, norm_idx, j, norm_count) ==
    IF ~(j < Len(text) /\ norm_count < norm_idx) THEN j
    ELSE LET ch == text[j + 1]
         IN  IF ch \in ZeroWidthChars THEN MapStart(text, norm_idx, j + 1, norm_count)
             ELSE IF ch = "&"
                  THEN IF Lower(Slice(text, j, j + 5)) = S_amp
                       THEN MapStart(text, norm_idx, j + 5, norm_count + 3)
                       ELSE MapStart(text, norm_idx, j + 1, norm_count + 3)
             ELSE IF IsSpaceChar(ch)
                  THEN MapStart(text, norm_idx,
                                Len(text) - Len(LStrip(Slice(text, j, Len(text)))),
                                norm_count + 1)
             ELSE MapStart(text, norm_idx, j + 1, norm_count + 1)

\* The second loop of _map_normalized_span: j when it ends.
RECURSIVE MapEnd(_, _, _, _)
MapEnd(text, norm_len, j, norm_taken) ==
    IF ~(j < Len(text) /\ norm_taken < norm_len) THEN j
    ELSE LET ch == text[j + 1]
         IN  IF ch \in ZeroWidthChars THEN MapEnd(text, norm_len, j + 1, norm_taken)
             ELSE IF Lower(Slice(text, j, j + 5)) = S_amp
                  THEN MapEnd(text, norm_len, j + 5, norm_taken + 3)
             ELSE IF ch = "&" THEN MapEnd(text, norm_len, j + 1, norm_taken + 3)
             ELSE IF IsSpaceChar(ch)
                  THEN MapEnd(text, norm_len,
                              Len(text) - Len(LStrip(Slice(text, j, Len(text)))),
                              norm_taken + 1)
             ELSE MapEnd(text, norm_len, j + 1, norm_taken + 1)

\* _map_normalized_span: <<start, end>>, or <<-1, -1>> for (None, None)
MapNormalizedSpan(text, norm_idx, norm_len) ==
    LET start == MapStart(text, norm_idx, 0, 0)
        end == MapEnd(text, norm_len, start, 0)
    IN  IF start < end THEN <<start, end>> ELSE <<-1, -1>>

\* The filters of _search_normalized_entities on a mapped span.
AcceptFallbackSpan(det, text, start, end, seen_spans) ==
    LET original_slice == Slice(text, start, end)
    IN  /\ start >= 0 /\ start < end
        /\ <<start, end>> \notin seen_spans
        /\ AnyAlpha(original_slice)
        /\ "\n" \notin Range(original_slice) /\ "\r" \notin Range(original_slice)
        /\ ~(start > 0 /\ LettersPattern(text[start]))
        /\ ~(end < Len(text) /\ LettersPattern(text[end + 1]))
        /\ Lower(Strip(original_slice)) \notin det.COMMON_WORDS
        /\ ~InUrlContext(text, start, end)
        /\ ~(det.name \in {T_organization, T_location} /\ IsLowerStr(original_slice))

\* The `while True` loop of _search_normalized_entities for one entity.
RECURSIVE FallbackFind(_, _, _, _, _, _)
FallbackFind(det, text, norm_text, norm_entity, pos, acc) ==
    LET idx == Find(norm_text, norm_entity, pos)
    IN  IF idx = -1 THEN acc
        ELSE LET span == MapNormalizedSpan(text, idx, Len(norm_entity))
             IN  IF AcceptFallbackSpan(det, text, span[1], span[2], acc.seen_spans)
                 THEN FallbackFind(det, text, norm_text, norm_entity, idx + 1,
                          [acc EXCEPT !.seen_spans = @ \cup {span},
                                      !.candidates = Append(@,
                                          <<span[1], span[2],
                                            Slice(text, span[1], span[2])>>)])
                 ELSE FallbackFind(det, text, norm_text, norm_entity, idx + 1, acc)

\* _search_normalized_entities: the loop over self._multi_word_entities,
\* a set, iterated in the order `order` lists it.
RECURSIVE SearchNormalizedEntities(_, _, _, _)
SearchNormalizedEntities(det, text, order, acc) ==
    IF order = <<>> THEN acc
    ELSE LET entity_lower == Head(order)
             norm_entity == NormalizeForEntity(entity_lower)
             after ==
                 IF \E sp \in acc.seen_spans : entity_lower = Lower(Slice(text, sp[1], sp[2]))
                 THEN acc
                 ELSE IF Len(norm_entity) < 5 THEN acc
                 ELSE FallbackFind(det, text, NormalizeForEntity(text), norm_entity, 0, acc)
         IN  SearchNormalizedEntities(det, text, Tail(order), after)

-----------------------------------------------------------------------------
(* Locale stop-word sets and the detector classes                           *)

\* DutchEntityDetector.COMMON_WORDS
DutchCommonWords ==
    { <<"e","e","n">>,
      <<"h","e","t">>,
      <<"d","e">>,
      <<"d","i","e">>,
      <<"d","a","t">>,
      <<"d","e","z","e">>,
      <<"d","i","t">>,
      <<"d","a","n">>,
      <<"t","o","e","n">>,
      <<"a","l","s">>,
      <<"m","a","a","r">>,
      <<"w","a","n","t">>,
      <<"d","u","s">>,
      <<"n","o","g">>,
      <<"a","l">>,
      <<"n","a","a","r">>,
      <<"d","o","o","r">>,
      <<"o","m">>,
      <<"b","i","j">>,
      <<"a","a","n">>,
      <<"v","a","n">>,
      <<"i","n">>,
      <<"o","p">>,
      <<"t","e">>,
      <<"t","e","n">>,
      <<"t","e","r">>,
      <<"m","e","t">>,
      <<"t","o","t">>,
      <<"v","o","o","r">>,
      <<"b","e","n">>,
      <<"h","o","e","v","e","n">>,
      <<"v","e","l","d","e","n">>,
      <<"d","r","i","e">>,
      <<"h","a","l","f","w","e","g">>,
      <<"h","e","e","l">>,
      <<"w","a","a","r","d","e">>,
      <<"z","e","t","t","e","n">>,
      <<"n","u","i","s">>,
      <<"l","e","i","d","e","n">>,
      <<"l","o","o","p">>,
      <<"m","i","j","l","p","a","a","l">>,
      <<"f","u","n","c","t","i","o","n","e","e","l">>,
      <<"b","e","h","e","e","r","d","e","r">>,
      <<"a","p","p","l","i","c","a","t","i","e","b","e","h","e","e","r","d","e","r">>,
      <<"m","e","d","e","w","e","r","k","e","r">>,
      <<"c","o","l","l","e","g","a">>,
      <<"a","f","d","e","l","i","n","g">> }

\* EnglishEntityDetector.COMMON_WORDS
EnglishCommonWords ==
    { <<"a">>,
      <<"a","n">>,
      <<"a","n","d">>,
      <<"a","t">>,
      <<"b","e">>,
      <<"f","o","r">>,
      <<"f","r","o","m">>,
      <<"h","a","s">>,
      <<"h","a","v","e">>,
      <<"i","n">>,
      <<"i","s">>,
      <<"i","t">>,
      <<"o","f">>,
      <<"o","n">>,
      <<"o","r">>,
      <<"t","h","a","t">>,
      <<"t","h","e">>,
      <<"t","h","e","i","r">>,
      <<"t","h","e","r","e">>,
      <<"t","h","i","s">>,
      <<"t","o">>,
      <<"w","a","s">>,
      <<"w","e","r","e">>,
      <<"w","i","t","h">> }

\* JSONEntityDetector.__init__ for a subclass with the given name, filth
\* class and stop words, once self.entities is loaded.
EntityDetector(name, filth_cls, common_words, entities) ==
    [name |-> name, filth_cls |-> filth_cls, COMMON_WORDS |-> common_words,
     entities |-> entities,
     automaton |-> BuildAutomaton(entities),
     multi_word_entities |-> MultiWordEntities(entities)]

\* ranked = sorted(candidates, key=(-(end - start), start)): the place of
\* candidate c in a list already ranked (sorted is stable).
RECURSIVE InsertRanked(_, _)
InsertRanked(ranked, c) ==
    IF ranked = <<>> THEN <<c>>
    ELSE LET h == Head(ranked)
             lenC == c[2] - c[1]
             lenH == h[2] - h[1]
         IN  IF lenC > lenH \/ (lenC = lenH /\ c[1] < h[1])
             THEN <<c>> \o ranked
             ELSE <<h>> \o InsertRanked(Tail(ranked), c)

\* The candidates in the order they were collected, without ranking.
UnrankedCandidates(candidates) == candidates

RECURSIVE Ranked(_)
Ranked(candidates) ==
    IF candidates = <<>> THEN <<>>
    ELSE InsertRanked(Ranked(SubSeq(candidates, 1, Len(candidates) - 1)),
                      candidates[Len(candidates)])

\* sorted(selected, key=start), stable
RECURSIVE InsertByStart(_, _)
InsertByStart(sorted, c) ==
    IF sorted = <<>> THEN <<c>>
    ELSE IF c[1] < Head(sorted)[1] THEN <<c>> \o sorted
    ELSE <<Head(sorted)>> \o InsertByStart(Tail(sorted), c)

RECURSIVE SortedByStart(_)
SortedByStart(selected) ==
    IF selected = <<>> THEN <<>>
    ELSE InsertByStart(SortedByStart(SubSeq(selected, 1, Len(selected) - 1)),
                       selected[Len(selected)])

\* The greedy loop of _filter_overlapping_candidates over ranked.
RECURSIVE SelectGreedy(_, _)
SelectGreedy(ranked, selected) ==
    IF ranked = <<>> THEN selected
    ELSE LET start == Head(ranked)[1]
             end == Head(ranked)[2]
         IN  IF \E i \in DOMAIN selected :
                    ~(end <= selected[i][1] \/ start >= selected[i][2])
             THEN SelectGreedy(Tail(ranked), selected)
             ELSE SelectGreedy(Tail(ranked), Append(selected, Head(ranked)))

\* A filter that ranks the candidates and keeps them all.
KeepAllCandidates(candidates) == SortedByStart(Ranked(candidates))

\* JSONEntityDetector._filter_overlapping_candidates
FilterOverlappingCandidates(candidates) ==
    IF candidates = <<>> THEN <<>>
    ELSE SortedByStart(SelectGreedy(Ranked(candidates), <<>>))

\* The candidates list of iter_filth before the overlap filter: the
\* automaton loop, then the normalization fallback: [raised, candidates].
CollectCandidates(det, text, order) ==
    LET hits == HitSeq(AutomatonHits(det.automaton, Lower(text)))
        scanned == AutomatonLoop(det, text, hits, 1,
                       [seen_spans |-> {}, candidates |-> <<>>, raised |-> FALSE])
    IN  IF scanned.raised THEN [raised |-> TRUE, candidates |-> <<>>]
        ELSE IF det.multi_word_entities # {}
        THEN [raised |-> FALSE,
              candidates |-> SearchNormalizedEntities(det, text, order, scanned).candidates]
        ELSE [raised |-> FALSE, candidates |-> scanned.candidates]

\* JSONEntityDetector.iter_filth: [raised, out], out the filths yielded and
\* raised whether the call ended in an exception instead.
IterFilth(det, text, order) ==
    IF DOMAIN det.automaton = {} THEN [raised |-> FALSE, out |-> <<>>]
    ELSE LET collected == CollectCandidates(det, text, order)
             filtered == FilterOverlappingCandidates(collected.candidates)
         IN  [raised |-> collected.raised,
              out |-> [i \in DOMAIN filtered |->
                         Filth(det.filth_cls, filtered[i][1], filtered[i][2],
                               filtered[i][3], det.name)]]

\* The orders in which a set can be iterated.
RECURSIVE Orders(_)
Orders(S) ==
    IF S = {} THEN {<<>>}
    ELSE UNION {{<<x>> \o q : q \in Orders(S \ {x})} : x \in S}

-----------------------------------------------------------------------------
(* DutchEntityDetector and the Dutch detector classes                      *)

\* super()._load_json_entities() and the filter on the shared class-level
\* cache _dutch_loaded_entities
DutchFilterLoaded(file, cache) ==
    SelectSeq(JSONLoadEntities(file, DutchCommonWords), LAMBDA e : Lower(e) \notin cache)

\* `for entity in self.entities: cache.add(entity.lower())`
DutchTrackLoaded(entities, cache) ==
    cache \cup {Lower(entities[i]) : i \in DOMAIN entities}

\* DutchEntityDetector._load_json_entities: the entities kept and the shared
\* cache afterwards.
DutchLoadEntities(file, cache) ==
    LET kept == DutchFilterLoaded(file, cache)
    IN  [entities |-> kept, cache |-> DutchTrackLoaded(kept, cache)]

\* filth_cls of the detector classes, by detector name
FilthClsOf(name) ==
    CASE name = T_location -> "LocationFilth"
      [] name = T_organization -> "OrganizationFilth"
      [] name = T_name -> "NameFilth"

\* DutchLocationDetector(), DutchOrganizationDetector(), DutchNameDetector():
\* [detector, cache]
DutchDetector(name, file, cache) ==
    LET l == DutchLoadEntities(file, cache)
    IN  [detector |-> EntityDetector(name, FilthClsOf(name), DutchCommonWords, l.entities),
         cache |-> l.cache]

\* EnglishLocationDetector(), EnglishOrganizationDetector(), EnglishNameDetector()
EnglishDetector(name, file) ==
    EntityDetector(name, FilthClsOf(name), EnglishCommonWords,
                   JSONLoadEntities(file, EnglishCommonWords))

-----------------------------------------------------------------------------
(* CustomWordDetector (sanitize_text/utils/custom_detectors/custom_word.py) *)

\* CustomWordDetector.__init__: None is <<>>
CustomWordDetector(custom_text) ==
    [name |-> T_custom, kind |-> "custom", custom_text |-> Strip(custom_text)]

\* The `while True` loop of CustomWordDetector.iter_filth from `start` on.
RECURSIVE CustomWordLoop(_, _, _)
CustomWordLoop(custom_text, text, start) ==
    LET at == Find(text, custom_text, start)
    IN  IF at = -1 THEN <<>>
        ELSE <<Filth("CustomWordFilth", at, at + Len(custom_text), custom_text, T_custom)>>
             \o CustomWordLoop(custom_text, text, at + 1)

\* CustomWordDetector.iter_filth
CustomWordIterFilth(det, text) ==
    IF det.custom_text = <<>> \/ text = <<>> THEN <<>>
    ELSE CustomWordLoop(det.custom_text, text, 0)

-----------------------------------------------------------------------------
(* The detector catalogue and setup_scrubber (sanitize_text/core/scrubber.py) *)

T_sharepoint_url == <<"s","h","a","r","e","p","o","i","n","t","_","u","r","l">>
T_email == <<"e","m","a","i","l">>
T_phone == <<"p","h","o","n","e">>
T_spacy_entities == <<"s","p","a","c","y","_","e","n","t","i","t","i","e","s">>
T_date_of_birth == <<"d","a","t","e","_","o","f","_","b","i","r","t","h">>

DetectorSpec(name, factory, enabled, enabled_by_default) ==
    [name |-> name, factory |-> factory, enabled |-> enabled,
     enabled_by_default |-> enabled_by_default]

GENERIC_DETECTORS ==
    << DetectorSpec(T_markdown_url, "_build_markdown_detector", "None", TRUE),
       DetectorSpec(T_sharepoint_url, "_build_sharepoint_detector", "None", TRUE),
       DetectorSpec(T_url, "_build_url_detector", "None", TRUE),
       DetectorSpec(T_email, "_build_email_detector", "None", TRUE),
       DetectorSpec(T_phone, "_build_phone_detector", "None", TRUE),
       DetectorSpec(T_private_ip, "_build_private_ip_detector", "None", TRUE),
       DetectorSpec(T_public_ip, "_build_public_ip_detector", "None", TRUE) >>

\* LOCALE_DETECTORS.get(locale, [])
LOCALE_DETECTORS(locale) ==
    CASE locale = "nl_NL" ->
           << DetectorSpec(T_location, "_build_dutch_location", "None", TRUE),
              DetectorSpec(T_organization, "_build_dutch_org", "None", TRUE),
              DetectorSpec(T_name, "_build_dutch_name", "None", TRUE),
              DetectorSpec(T_spacy_entities, "_build_spacy_detector", "_spacy_enabled", FALSE) >>
      [] locale = "en_US" ->
           << DetectorSpec(T_name, "_build_english_name", "None", TRUE),
              DetectorSpec(T_organization, "_build_english_org", "None", TRUE),
              DetectorSpec(T_location, "_build_english_location", "None", TRUE),
              DetectorSpec(T_date_of_birth, "_build_date_of_birth", "None", TRUE),
              DetectorSpec(T_spacy_entities, "_build_spacy_detector", "_spacy_enabled", FALSE) >>
      [] OTHER -> <<>>

\* _SPACY_MODELS
SpacyLocales == {"nl_NL", "en_US"}

\* DetectorSpec.is_enabled, with _spacy_enabled; spacy says whether
\* scrubadub_spacy can be imported.
IsEnabled(spec, locale, spacy) ==
    IF spec.enabled = "None" THEN TRUE ELSE locale \in SpacyLocales /\ spacy

\* _iter_enabled_specs
IterEnabledSpecs(specs, locale, spacy) ==
    SelectSeq(specs, LAMBDA spec : IsEnabled(spec, locale, spacy))

\* The entity JSON resource of a locale and category in the data directory.
DataFile(data, locale, name) ==
    LET d == IF locale = "nl_NL" THEN data.nl_NL ELSE data.en_US
    IN  CASE name = T_location -> d.location
          [] name = T_organization -> d.organization
          [] name = T_name -> d.name

\* The names sanitize_text/utils/custom_detectors/__init__.py imports into
\* the package.  The module sharepoint_url_detector is not imported there.
PackageExports ==
    {"DutchEntityDetector", "EnglishEntityDetector", "CustomWordDetector",
     "DutchLocationDetector", "DutchNameDetector", "DutchOrganizationDetector",
     "EnglishLocationDetector", "EnglishNameDetector", "EnglishOrganizationDetector",
     "PrivateIPDetector", "PublicIPDetector", "MarkdownUrlDetector",
     "BareDomainDetector"}

\* The class a factory imports from sanitize_text.utils.custom_detectors;
\* "" for the factories that build a detector of the scrubadub library.
FactoryImport(factory) ==
    CASE factory = "_build_markdown_detector" -> "MarkdownUrlDetector"
      [] factory = "_build_sharepoint_detector" -> "SharePointUrlDetector"
      [] factory = "_build_url_detector" -> "BareDomainDetector"
      [] factory = "_build_private_ip_detector" -> "PrivateIPDetector"
      [] factory = "_build_public_ip_detector" -> "PublicIPDetector"
      [] factory = "_build_dutch_location" -> "DutchLocationDetector"
      [] factory = "_build_dutch_org" -> "DutchOrganizationDetector"
      [] factory = "_build_dutch_name" -> "DutchNameDetector"
      [] factory = "_build_english_location" -> "EnglishLocationDetector"
      [] factory = "_build_english_org" -> "EnglishOrganizationDetector"
      [] factory = "_build_english_name" -> "EnglishNameDetector"
      [] OTHER -> ""

\* spec.factory(context) raises: `from package import Name` is an ImportError
\* for a name the package does not hold.
FactoryRaises(spec) ==
    FactoryImport(spec.factory) # "" /\ FactoryImport(spec.factory) \notin PackageExports

\* name = f"spacy_{context.locale.split('_')[0]}"
SpacyName(locale) ==
    <<"s","p","a","c","y","_">>
    \o (IF locale = "nl_NL" THEN <<"n","l">> ELSE <<"e","n">>)

\* spec.factory(context): [detector, cache], cache being
\* DutchEntityDetector._dutch_loaded_entities after the construction.
BuildDetector(spec, locale, data, cache) ==
    IF spec.factory \in {"_build_dutch_location", "_build_dutch_org", "_build_dutch_name"}
    THEN DutchDetector(spec.name, DataFile(data, "nl_NL", spec.name), cache)
    ELSE IF spec.factory \in {"_build_english_location", "_build_english_org",
                              "_build_english_name"}
    THEN [detector |-> EnglishDetector(spec.name, DataFile(data, "en_US", spec.name)),
          cache |-> cache]
    ELSE IF spec.factory = "_build_spacy_detector"
    THEN [detector |-> [name |-> SpacyName(locale), kind |-> spec.factory], cache |-> cache]
    ELSE [detector |-> [name |-> spec.name, kind |-> spec.factory], cache |-> cache]

\* A loop that builds the detectors in the order of the selection.
RECURSIVE BuildInSelectionOrder(_, _, _, _, _, _)
BuildInSelectionOrder(ordered_specs, i, normalized_selection, locale, data, acc) ==
    IF i > Len(normalized_selection) THEN acc
    ELSE LET named == SelectSeq(ordered_specs,
                                LAMBDA spec : spec.name = normalized_selection[i])
         IN  IF named = <<>> \/ FactoryRaises(named[1])
             THEN BuildInSelectionOrder(ordered_specs, i + 1, normalized_selection,
                                        locale, data, acc)
             ELSE LET b == BuildDetector(named[1], locale, data, acc.cache)
                  IN  BuildInSelectionOrder(ordered_specs, i + 1, normalized_selection,
                                            locale, data,
                                            [detector_list |-> Append(acc.detector_list,
                                                                      b.detector),
                                             cache |-> b.cache])

\* The loop `for spec in ordered_specs` of setup_scrubber from spec i on: a
\* factory that raises is logged and its detector left out.
RECURSIVE BuildSelected(_, _, _, _, _, _)
BuildSelected(ordered_specs, i, normalized_selection, locale, data, acc) ==
    IF i > Len(ordered_specs) THEN acc
    ELSE IF /\ ordered_specs[i].name \in Range(normalized_selection)
            /\ ~FactoryRaises(ordered_specs[i])
    THEN LET b == BuildDetector(ordered_specs[i], locale, data, acc.cache)
         IN  BuildSelected(ordered_specs, i + 1, normalized_selection, locale, data,
                           [detector_list |-> Append(acc.detector_list, b.detector),
                            cache |-> b.cache])
    ELSE BuildSelected(ordered_specs, i + 1, normalized_selection, locale, data, acc)

\* A reset that leaves the shared cache as it is.
ResetSkipped(locale, cache) == cache

\* A reset that happens for the other locale only.
ResetOnEnglish(locale, cache) == IF locale = "en_US" THEN {} ELSE cache

\* `if locale == "nl_NL": DutchEntityDetector.reset_loaded_entities()`
ResetLoadedEntities(locale, cache) == IF locale = "nl_NL" THEN {} ELSE cache

\* selected_detectors = None
NoSelection == << <<"<None>">> >>

\* normalized_selection of setup_scrubber
NormalizedSelection(selected_detectors, ordered_specs) ==
    IF selected_detectors = NoSelection
    THEN LET dflt == SelectSeq(ordered_specs, LAMBDA spec : spec.enabled_by_default)
         IN  [i \in DOMAIN dflt |-> dflt[i].name]
    ELSE SelectSeq([i \in DOMAIN selected_detectors |-> Lower(selected_detectors[i])],
                   LAMBDA d : \E j \in DOMAIN ordered_specs : ordered_specs[j].name = d)

\* invalid_detectors of setup_scrubber, as the warning names them:
\* sorted(set(invalid_detectors)), here the set.
InvalidDetectors(selected_detectors, ordered_specs) ==
    IF selected_detectors = NoSelection THEN {}
    ELSE {Lower(selected_detectors[i]) : i \in DOMAIN selected_detectors}
         \ {ordered_specs[j].name : j \in DOMAIN ordered_specs}

\* setup_scrubber(locale, selected_detectors, custom_text): the scrubber,
\* the shared cache afterwards and what was logged.  custom_text None is <<>>.
SetupScrubber(locale, selected_detectors, custom_text, data, spacy, cache) ==
    LET ordered_specs == IterEnabledSpecs(GENERIC_DETECTORS, locale, spacy)
                         \o IterEnabledSpecs(LOCALE_DETECTORS(locale), locale, spacy)
        normalized_selection == NormalizedSelection(selected_detectors, ordered_specs)
        first == IF custom_text # <<>> THEN <<CustomWordDetector(custom_text)>> ELSE <<>>
        built == BuildSelected(ordered_specs, 1, normalized_selection, locale, data,
                               [detector_list |-> first,
                                cache |-> ResetLoadedEntities(locale, cache)])
        could_not_add == SelectSeq(ordered_specs, LAMBDA spec :
                             /\ spec.name \in Range(normalized_selection)
                             /\ FactoryRaises(spec))
    IN  [scrubber |-> [locale |-> locale, detector_list |-> built.detector_list],
         cache |-> built.cache,
         log |-> [invalid |-> InvalidDetectors(selected_detectors, ordered_specs),
                  could_not_add |-> [i \in DOMAIN could_not_add |-> could_not_add[i].name]]]

\* The order in which this process iterates a set of strings.
ProcessOrder(S) == CHOOSE q \in Orders(S) : TRUE

\* detector.iter_filth(text) for a detector of the scrubber.  The documents
\* of the pipeline specifications hold letters, spaces and "&" only: the
\* URL, e-mail, phone, IP and markdown patterns need a ".", "@", "[" or a
\* digit and yield nothing on them.
DetectorIterFilth(det, text) ==
    IF "automaton" \in DOMAIN det
    THEN IterFilth(det, text, ProcessOrder(det.multi_word_entities)).out
    ELSE IF det.kind = "custom" THEN CustomWordIterFilth(det, text)
    ELSE <<>>

\* list(scrubber.iter_filth(text)): the detectors run in list order.
RECURSIVE ScrubberIterFilth(_, _)
ScrubberIterFilth(detector_list, text) ==
    IF detector_list = <<>> THEN <<>>
    ELSE DetectorIterFilth(Head(detector_list), text)
         \o ScrubberIterFilth(Tail(detector_list), text)

-----------------------------------------------------------------------------
(* MarkdownUrlDetector                                                     *)
(* (sanitize_text/utils/custom_detectors/markdown_url_detector.py)         *)

\* text[pos:].startswith(p), pos 0-based
StartsWithAt(text, pos, p) == Slice(text, pos, pos + Len(p)) = p

\* The least 0-based index >= pos of a character of text in stop, else
\* len(text).
RunEnd(text, pos, stop) ==
    LET hits == {i \in pos..(Len(text) - 1) : text[i + 1] \in stop}
    IN  IF hits = {} THEN Len(text) ELSE CHOOSE i \in hits : \A j \in hits : i <= j

\* The alternatives of the groups 'open' and 'close', in the order the regex
\* tries them.
OpenAlternatives == << <<"[","[">>, <<"[">> >>
CloseAlternatives == << <<"]","]">>, <<"]">> >>

\* self.regex matched at 0-based position i with the given alternatives of
\* 'open' and 'close': 'text' runs to the first "]", 'url' is one or more
\* characters up to the first ")".  [ok, start, end, open, text, close, url]
MatchWith(text, i, open, close) ==
    LET text_beg == i + Len(open)
        text_end == RunEnd(text, text_beg, {"]"})
        paren == text_end + Len(close)
        url_beg == paren + 1
        url_end == RunEnd(text, url_beg, {")"})
    IN  [ok |-> /\ StartsWithAt(text, i, open)
                /\ StartsWithAt(text, text_end, close)
                /\ StartsWithAt(text, paren, <<"(">>)
                /\ url_end > url_beg
                /\ url_end < Len(text),
         start |-> i, end |-> url_end + 1,
         open |-> open, text |-> Slice(text, text_beg, text_end),
         close |-> close, url |-> Slice(text, url_beg, url_end)]

\* self.regex.match(text, i): the first alternative pair that matches, in
\* backtracking order; ok is FALSE when none does.
MarkdownMatchAt(text, i) ==
    LET tries == << MatchWith(text, i, OpenAlternatives[1], CloseAlternatives[1]),
                    MatchWith(text, i, OpenAlternatives[1], CloseAlternatives[2]),
                    MatchWith(text, i, OpenAlternatives[2], CloseAlternatives[1]),
                    MatchWith(text, i, OpenAlternatives[2], CloseAlternatives[2]) >>
        good == {k \in DOMAIN tries : tries[k].ok}
    IN  IF good = {} THEN [ok |-> FALSE]
        ELSE tries[CHOOSE k \in good : \A j \in good : k <= j]

\* self.regex.finditer(text) from position pos on
RECURSIVE MarkdownFindIter(_, _)
MarkdownFindIter(text, pos) ==
    IF pos >= Len(text) THEN <<>>
    ELSE LET m == MarkdownMatchAt(text, pos)
         IN  IF m.ok THEN <<m>> \o MarkdownFindIter(text, m.end)
             ELSE MarkdownFindIter(text, pos + 1)

\* re.sub(r"\s+", "", url_raw)
RECURSIVE RemoveSpaces(_)
RemoveSpaces(s) ==
    IF s = <<>> THEN <<>>
    ELSE IF IsSpaceChar(Head(s)) THEN RemoveSpaces(Tail(s))
    ELSE <<Head(s)>> \o RemoveSpaces(Tail(s))

\* The characters of [\]\)\.,;:>'"]
TrailingJunk == {"]", ")", ".", ",", ";", ":", ">", "'", "\""}

\* re.sub(r"[\]\)\.,;:>'\"]+$", "", url)
RECURSIVE TrimTrailingJunk(_)
TrimTrailingJunk(url) ==
    IF url # <<>> /\ url[Len(url)] \in TrailingJunk
    THEN TrimTrailingJunk(SubSeq(url, 1, Len(url) - 1))
    ELSE url

\* The url of a match, normalized as iter_filth does.
NormalizeUrl(url_raw) ==
    LET compact == Strip(RemoveSpaces(url_raw))
        bare == IF StartsWith(compact, <<"<">>) /\ compact # <<>>
                   /\ compact[Len(compact)] = ">"
                THEN Slice(compact, 1, Len(compact) - 1)
                ELSE compact
    IN  TrimTrailingJunk(bare)

\* The loop body of MarkdownUrlDetector.iter_filth over the matches from m on.
RECURSIVE MarkdownLoop(_, _, _)
MarkdownLoop(text, matches, m) ==
    IF m > Len(matches) THEN <<>>
    ELSE LET open_br == matches[m].open
             close_br == matches[m].close
             bracket_pairs == IF open_br = <<"[","[">> THEN 2 ELSE 1
         IN  IF (open_br = <<"[","[">> /\ close_br # <<"]","]">>)
                \/ (open_br = <<"[">> /\ close_br # <<"]">>)
             THEN MarkdownLoop(text, matches, m + 1)
             ELSE << MarkdownUrlFilth(matches[m].start, matches[m].end,
                                      Slice(text, matches[m].start, matches[m].end),
                                      matches[m].text, NormalizeUrl(matches[m].url),
                                      bracket_pairs, T_markdown_url) >>
                  \o MarkdownLoop(text, matches, m + 1)

\* MarkdownUrlDetector.iter_filth
MarkdownIterFilth(text) == MarkdownLoop(text, MarkdownFindIter(text, 0), 1)

-----------------------------------------------------------------------------
(* PrivateIPDetector and PublicIPDetector                                  *)
(* (sanitize_text/utils/custom_detectors/ip_detectors.py)                  *)

\* \b at 0-based position i of text: exactly one of the characters around
\* it is a word character.
WordBoundaryAt(text, i) ==
    LET before == i > 0 /\ IsWordChar(text[i])
        after == i < Len(text) /\ IsWordChar(text[i + 1])
    IN  before # after

\* The positions where a literal started at one of the positions ends.
AfterLiteral(text, positions, literal) ==
    {p + Len(literal) : p \in {q \in positions : StartsWithAt(text, q, literal)}}

\* The positions where \d{1,3} started at one of the positions can end.
AfterDigits(text, positions) ==
    UNION { {e \in (p + 1)..(p + 3) :
                /\ e <= Len(text)
                /\ \A k \in (p + 1)..e : IsDigitChar(text[k])} : p \in positions }

\* The positions where one character of chars started at one of the
\* positions ends.
AfterOneOf(text, positions, chars) ==
    {p + 1 : p \in {q \in positions : q < Len(text) /\ text[q + 1] \in chars}}

\* \.\d{1,3}
AfterDotDigits(text, positions) == AfterDigits(text, AfterLiteral(text, positions, <<".">>))

\* 192\.168\.\d{1,3}\.\d{1,3}|10\.0\.\d{1,3}\.\d{1,3}|172\.\d{1,3}\.\d{1,3}\.\d{1,3}
PrivateAlternatives(text, i) ==
    AfterDotDigits(text, AfterDotDigits(text,
        AfterLiteral(text, {i}, <<"1","9","2",".","1","6","8">>)))
    \cup AfterDotDigits(text, AfterDotDigits(text,
        AfterLiteral(text, {i}, <<"1","0",".","0">>)))
    \cup AfterDotDigits(text, AfterDotDigits(text, AfterDotDigits(text,
        AfterLiteral(text, {i}, <<"1","7","2">>))))

\* 1[6-9]|2[0-9]|3[0-1]
AfterSixteenToThirtyOne(text, positions) ==
    AfterOneOf(text, AfterLiteral(text, positions, <<"1">>), {"6","7","8","9"})
    \cup AfterOneOf(text, AfterLiteral(text, positions, <<"2">>), Digits)
    \cup AfterOneOf(text, AfterLiteral(text, positions, <<"3">>), {"0","1"})

\* The lookahead (?:192\.168|10\.0|172\.(?:1[6-9]|2[0-9]|3[0-1]))\.\d{1,3}\.\d{1,3}
\* of the public pattern matches at i.
PrivatePrefixAt(text, i) ==
    AfterDotDigits(text, AfterDotDigits(text,
        AfterLiteral(text, {i}, <<"1","9","2",".","1","6","8">>)
        \cup AfterLiteral(text, {i}, <<"1","0",".","0">>)
        \cup AfterSixteenToThirtyOne(text,
                 AfterLiteral(text, {i}, <<"1","7","2",".">>)))) # {}

\* (?:\d{1,3}\.){3}\d{1,3}
DottedQuad(text, i) ==
    AfterDotDigits(text, AfterDotDigits(text, AfterDotDigits(text,
        AfterDigits(text, {i}))))

\* The ends of the matches of PrivateIPDetector.regex that start at i.
PrivateMatchEnds(text, i) ==
    IF WordBoundaryAt(text, i)
    THEN {e \in PrivateAlternatives(text, i) : WordBoundaryAt(text, e)}
    ELSE {}

\* The ends of the matches of PublicIPDetector.regex that start at i.
PublicMatchEnds(text, i) ==
    IF WordBoundaryAt(text, i) /\ ~PrivatePrefixAt(text, i)
    THEN {e \in DottedQuad(text, i) : WordBoundaryAt(text, e)}
    ELSE {}

\* regex.finditer(text) from pos on, the filths iter_filth builds from it.
\* Digits are matched greedily: of the ends possible the match takes the
\* largest.  private tells which detector runs.
RECURSIVE IPIterFilth(_, _, _)
IPIterFilth(private, text, pos) ==
    IF pos >= Len(text) THEN <<>>
    ELSE LET ends == IF private THEN PrivateMatchEnds(text, pos)
                     ELSE PublicMatchEnds(text, pos)
             end == CHOOSE e \in ends : \A x \in ends : x <= e
         IN  IF ends = {} THEN IPIterFilth(private, text, pos + 1)
             ELSE << Filth(IF private THEN "PrivateIPFilth" ELSE "PublicIPFilth",
                           pos, end, Slice(text, pos, end),
                           IF private THEN T_private_ip ELSE T_public_ip) >>
                  \o IPIterFilth(private, text, end)

-----------------------------------------------------------------------------
\* The parts of the state a specification does not use stay as they are here.
IdleReplacer ==
    /\ replacer = NewReplacer("md5", 10000)
    /\ processed = <<>>
    /\ issued = {}

IdleDetect ==
    /\ alphabet = {}
    /\ resource = [exists |-> FALSE, valid |-> FALSE, entries |-> <<>>]
    /\ detector = EntityDetector(T_name, "NameFilth", {}, <<>>)
    /\ document = <<>>
    /\ yielded = [done |-> FALSE, raised |-> FALSE, out |-> <<>>]

\* No entity file at all.
NoFile == [exists |-> FALSE, valid |-> FALSE, entries |-> <<>>]

\* No pipeline run yet.
NoRun ==
    [done |-> FALSE, reran |-> FALSE, locale |-> "", selected_detectors |-> <<>>,
     custom_text |-> <<>>, text |-> <<>>, cache_before |-> {},
     detector_list |-> <<>>, filths |-> <<>>]

IdlePipeline ==
    /\ data_dir = [nl_NL |-> [location |-> NoFile, organization |-> NoFile, name |-> NoFile],
                   en_US |-> [location |-> NoFile, organization |-> NoFile, name |-> NoFile]]
    /\ scrubadub_spacy = FALSE
    /\ dutch_loaded_entities = {}
    /\ last_run = NoRun
    /\ pc = <<>>
    /\ building = <<>>

-----------------------------------------------------------------------------
(* Specification SpecDetect: one Dutch entity detector, built from a       *)
(* resource file, scans a document typed character by character.           *)

MaxTextLen == 5

DetectAlphabet == {"A", "a", "l", " ", "&"}

\* The same with a letter outside Latin-1 (U+0151).
UnicodeAlphabet == DetectAlphabet \cup {"o_dacute"}

JSONFile(matches) ==
    [exists |-> TRUE, valid |-> TRUE,
     entries |-> [i \in DOMAIN matches |-> [match |-> matches[i]]]]

\* Entity lists over the alphabet: a short name, a multi-word name that
\* contains it, a name that is a Dutch stop word ("al"), names that end
\* and start with an ampersand, a multi-word name with an ampersand, and one that overlaps it.
DetectResources ==
    { JSONFile(<< <<"L","a">>, <<"L","a"," ","a">>, <<"A","l">>, <<"L","a","&">>,
                  <<"&","a">> >>),
      JSONFile(<< <<"A"," ","&"," ","l">>, <<"l"," ","A">>, <<"a","a","l">> >>) }

DetectorUnderTest ==
    /\ resource \in DetectResources
    /\ \E name \in {T_location, T_name} :
          detector = DutchDetector(name, resource, {}).detector
    /\ document = <<>>
    /\ yielded = [done |-> FALSE, raised |-> FALSE, out |-> <<>>]

\* One more character of the document.
TypeChar ==
    /\ ~yielded.done
    /\ Len(document) < MaxTextLen
    /\ \E c \in alphabet : document' = Append(document, c)
    /\ UNCHANGED <<alphabet, resource, detector, yielded>>
    /\ UNCHANGED replacerVars
    /\ UNCHANGED pipelineVars

\* list(detector.iter_filth(text))
Scan ==
    /\ ~yielded.done
    /\ \E order \in Orders(detector.multi_word_entities) :
          LET r == IterFilth(detector, document, order)
          IN  yielded' = [done |-> TRUE, raised |-> r.raised, out |-> r.out]
    /\ UNCHANGED <<alphabet, resource, detector, document>>
    /\ UNCHANGED replacerVars
    /\ UNCHANGED pipelineVars

NextDetect == TypeChar \/ Scan

InitDetect ==
    /\ alphabet = DetectAlphabet
    /\ DetectorUnderTest
    /\ IdleReplacer
    /\ IdlePipeline

InitDetectUnicode ==
    /\ alphabet = UnicodeAlphabet
    /\ DetectorUnderTest
    /\ IdleReplacer
    /\ IdlePipeline

SpecDetect == InitDetect /\ [][NextDetect]_vars

SpecDetectUnicode == InitDetectUnicode /\ [][NextDetect]_vars

\* C6: the matches of one iter_filth call are pairwise non-intersecting
\* half-open spans, yielded in ascending order of start.
C6_NonOverlapAscending ==
    \A i \in DOMAIN yielded.out : \A j \in DOMAIN yielded.out :
        i < j =>
            /\ yielded.out[i].beg < yielded.out[j].beg
            /\ yielded.out[i].end <= yielded.out[j].beg
            /\ yielded.out[i].beg < yielded.out[i].end
            /\ yielded.out[j].beg < yielded.out[j].end

\* C6 witness: a scan whose candidate list held two intersecting spans
\* yielded two matches.
C6_Witness ==
    /\ yielded.done
    /\ Len(yielded.out) >= 2
    /\ \E order \in Orders(detector.multi_word_entities) :
          LET c == CollectCandidates(detector, document, order).candidates
          IN  /\ Len(c) > Len(yielded.out)
              /\ \E i \in DOMAIN c : \E j \in DOMAIN c :
                    i # j /\ c[i][1] < c[j][2] /\ c[j][1] < c[i][2]

\* Python's str.isalpha() or str.isdigit() for the character at 0-based
\* position p of text, FALSE outside the text.
AlnumAt(text, p) ==
    /\ p >= 0
    /\ p < Len(text)
    /\ (IsAlphaChar(text[p + 1]) \/ IsDigitChar(text[p + 1]))

\* C7: for every match yielded by iter_filth, the character before beg and
\* the character at end, when inside the text, are neither a letter (with
\* or without diacritic) nor a digit.
C7_WordBoundary ==
    \A i \in DOMAIN yielded.out :
        /\ ~AlnumAt(document, yielded.out[i].beg - 1)
        /\ ~AlnumAt(document, yielded.out[i].end)

\* The 0-based positions where text holds word, compared case-insensitively.
OccurrencesOf(word, text) ==
    {p \in 0..(Len(text) - Len(word)) :
        Lower(Slice(text, p, p + Len(word))) = Lower(word)}

\* C10: for an entity of the source list whose lowercase form is a stop word
\* of the detector, an all-lowercase occurrence in the text yields no match,
\* and an occurrence written as in the list and delimited by non-letters is
\* covered by a match of the detector's category.
C10_StopwordEntity ==
    (yielded.done /\ ~yielded.raised) =>
        \A e \in DOMAIN resource.entries :
            LET word == Strip(resource.entries[e].match)
            IN  Lower(word) \in detector.COMMON_WORDS =>
                    \A p \in OccurrencesOf(word, document) :
                        LET seen == Slice(document, p, p + Len(word))
                            covering == {i \in DOMAIN yielded.out :
                                            /\ yielded.out[i].beg <= p
                                            /\ p + Len(word) <= yielded.out[i].end}
                        IN  /\ IsLowerStr(seen) => covering = {}
                            /\ ( /\ seen = word
                                 /\ ~AlnumAt(document, p - 1)
                                 /\ ~AlnumAt(document, p + Len(word)) )
                                => \E i \in covering :
                                       yielded.out[i].cls = detector.filth_cls

-----------------------------------------------------------------------------
(* Specification SpecReplacer: one HashedPIIReplacer instance, called any  *)
(* number of times with lists of filth.                                    *)

MaxFilths == 2

S_Al == <<"A","l">>
S_md_link == <<"[","a","]","(","h","t","t","p",":","/","/","b",")">>

\* The filths handed to the replacer: detector output, and objects built
\* directly as the repository's tests do.
ReplacerFilthPool ==
    { Filth("NameFilth", 0, 2, S_Al, T_name),
      MarkdownUrlFilth(0, 13, S_md_link, <<"a">>, <<"h","t","t","p",":","/","/","b">>,
                       1, T_markdown_url),
      MarkdownUrlFilth(0, 13, S_md_link, <<"x">>, <<>>, 2, T_markdown_url),
      [cls |-> "SimpleNamespace", type |-> T_markdown_url, text |-> S_md_link,
       replacement_string |-> <<>>] }

RECURSIVE SeqsUpTo(_, _)
SeqsUpTo(S, n) ==
    IF n = 0 THEN {<<>>}
    ELSE LET shorter == SeqsUpTo(S, n - 1)
         IN  shorter \cup {Append(q, x) : q \in shorter, x \in S}

ModulusArgs == {0, 1000}

InitReplacer ==
    /\ replacer \in {NewReplacer(a, m) : a \in {"md5", "sha256"}, m \in ModulusArgs}
    /\ processed = <<>>
    /\ issued = {}
    /\ IdleDetect
    /\ IdlePipeline

\* replacer.process_filth(filth_list)
ProcessFilthCall ==
    \E filth_list \in SeqsUpTo(ReplacerFilthPool, MaxFilths) \ {<<>>} :
        LET r == ProcessFilth(replacer, filth_list)
        IN  /\ replacer' = r.self
            /\ processed' = r.out
            /\ issued' = issued \cup Range(r.out)
            /\ UNCHANGED detectVars
            /\ UNCHANGED pipelineVars

NextReplacer == ProcessFilthCall

SpecReplacer == InitReplacer /\ [][NextReplacer]_vars

\* The 0-based index of the last occurrence of character c in s, or -1.
LastIndexOf(s, c) ==
    LET hits == {i \in DOMAIN s : s[i] = c}
    IN  IF hits = {} THEN -1 ELSE (CHOOSE i \in hits : \A j \in hits : j <= i) - 1

\* The placeholder token CATEGORY-digits a finalized filth carries: the whole
\* replacement string, or for a markdown filth the text between the last
\* "(" and the closing ")".
TokenOf(f) ==
    IF f.cls = "MarkdownUrlFilth"
    THEN Slice(f.replacement_string,
               LastIndexOf(f.replacement_string, "(") + 1,
               Len(f.replacement_string) - 1)
    ELSE f.replacement_string

\* C1: within one replacer instance, over all its process_filth calls, two
\* filths with equal (type, text) carry the same placeholder token, and two
\* non-markdown ones the same replacement_string.
C1_ReferentialConsistency ==
    \A x \in issued : \A y \in issued :
        (x.type = y.type /\ x.text = y.text) =>
            /\ TokenOf(x) = TokenOf(y)
            /\ (x.cls # "MarkdownUrlFilth" /\ y.cls # "MarkdownUrlFilth")
                   => x.replacement_string = y.replacement_string

\* C1 witness: a call returned a markdown filth and a plain filth of the same
\* (type, text) with one token, after earlier calls on the instance had
\* issued that key with another link text and a name twice.
C1_Witness ==
    /\ \E i \in DOMAIN processed : \E j \in DOMAIN processed :
          /\ i < j
          /\ processed[i].type = processed[j].type
          /\ processed[i].text = processed[j].text
          /\ processed[i].cls = "MarkdownUrlFilth"
          /\ processed[j].cls = "SimpleNamespace"
          /\ TokenOf(processed[i]) = TokenOf(processed[j])
          /\ \E x \in issued :
                /\ x.cls = "MarkdownUrlFilth"
                /\ x.text = processed[i].text
                /\ x.replacement_string # processed[i].replacement_string
                /\ TokenOf(x) = TokenOf(processed[i])
    /\ \E x \in issued : x.cls = "NameFilth" /\ x.replacement_string # <<>>

-----------------------------------------------------------------------------
(* Specification SpecPipeline: pipeline runs executed one after another in *)
(* one process: collect_filth builds a scrubber, detects and replaces; a   *)
(* scrubber, with its own replacer, is then run again on other documents.  *)

S_La == <<"L","a">>
S_A_amp_l == <<"A"," ","&"," ","l">>
S_l_A == <<"l"," ","A">>

\* Data directories.  In the first, names are shared between the Dutch
\* categories in several spellings and "Al" is a Dutch stop word; in the
\* second a file is missing, one is not valid JSON and one has an entry
\* without "match".
DataDirs ==
    { [nl_NL |-> [location |-> JSONFile(<<S_La, S_Al, S_A_amp_l>>),
                  organization |-> JSONFile(<< <<"l","a">>, S_Al, S_l_A, S_A_amp_l >>),
                  name |-> JSONFile(<< <<"L","A">>, <<"A","a","l">>, S_l_A >>)],
       en_US |-> [location |-> JSONFile(<< <<"L","a"," ","a">> >>),
                  organization |-> JSONFile(<<S_La>>),
                  name |-> JSONFile(<<S_Al, S_La>>)]],
      [nl_NL |-> [location |-> NoFile,
                  organization |-> JSONFile(<<S_La, <<" ","l"," ","A"," ">> >>),
                  name |-> [exists |-> TRUE, valid |-> TRUE,
                            entries |-> << [match |-> S_l_A], [other |-> S_La],
                                           [match |-> S_La] >>]],
       en_US |-> [location |-> [exists |-> TRUE, valid |-> FALSE, entries |-> <<>>],
                  organization |-> JSONFile(<<S_La>>),
                  name |-> JSONFile(<<S_l_A>>)]] }

PipelineLocales == {"nl_NL", "en_US"}

\* selected_detectors: None, names in another case, a name that is not
\* available.
PipelineSelections ==
    { NoSelection,
      <<Upper(T_name), T_location>>,
      <<T_organization, T_spacy_entities>> }

\* custom_text: None or a word
PipelineCustomTexts == {<<>>, <<"l">>}

PipelineDocs ==
    { <<"L","a"," ","l"," ","A"," ","A","l">>,
      <<"A"," ","&"," ","l"," ","A","a","l">> }

\* The entity lists of the Dutch and English detectors of a scrubber, by
\* detector name.
EntityLists(detector_list) ==
    LET json == SelectSeq(detector_list, LAMBDA d : "entities" \in DOMAIN d)
    IN  [i \in DOMAIN json |-> <<json[i].name, json[i].entities>>]

InitPipeline ==
    /\ data_dir \in DataDirs
    /\ scrubadub_spacy = FALSE
    /\ dutch_loaded_entities = {}
    /\ last_run = NoRun
    /\ pc = <<>>
    /\ building = <<>>
    /\ replacer = NewReplacer("md5", 1000)
    /\ processed = <<>>
    /\ issued = {}
    /\ IdleDetect

\* collect_filth(text, locale, selected_detectors, custom_text)
CollectFilth ==
    \E text \in PipelineDocs, locale \in PipelineLocales,
       selected_detectors \in PipelineSelections, custom_text \in PipelineCustomTexts :
        \E s \in {SetupScrubber(locale, selected_detectors, custom_text, data_dir,
                               scrubadub_spacy, dutch_loaded_entities)} :
        \E filths \in {ScrubberIterFilth(s.scrubber.detector_list, text)} :
        \E r \in {ProcessFilth(NewReplacer(replacer.algorithm, replacer.modulus), filths)} :
            /\ dutch_loaded_entities' = s.cache
            /\ replacer' = r.self
            /\ processed' = r.out
            /\ issued' = Range(r.out)
            /\ last_run' = [done |-> TRUE, reran |-> FALSE, locale |-> locale,
                            selected_detectors |-> selected_detectors,
                            custom_text |-> custom_text, text |-> text,
                            cache_before |-> dutch_loaded_entities,
                            detector_list |-> s.scrubber.detector_list,
                            filths |-> r.out]
            /\ UNCHANGED <<data_dir, scrubadub_spacy, pc, building>>
            /\ UNCHANGED detectVars

\* The scrubber of the last run detects and replaces in another document:
\* its detectors and its replacer instance are the ones built before.
RunAgain ==
    /\ last_run.done
    /\ \E text \in PipelineDocs :
          \E filths \in {ScrubberIterFilth(last_run.detector_list, text)} :
          \E r \in {ProcessFilth(replacer, filths)} :
              /\ replacer' = r.self
              /\ processed' = r.out
              /\ issued' = issued \cup Range(r.out)
              /\ last_run' = [last_run EXCEPT !.reran = TRUE, !.text = text,
                                              !.filths = r.out]
    /\ UNCHANGED <<data_dir, scrubadub_spacy, dutch_loaded_entities, pc, building>>
    /\ UNCHANGED detectVars

NextPipeline == CollectFilth \/ RunAgain

SpecPipeline == InitPipeline /\ [][NextPipeline]_vars

\* The run with the arguments of last_run in a process that has run nothing
\* before: an empty shared cache and a replacer that has seen no value.
FreshRun ==
    LET s == SetupScrubber(last_run.locale, last_run.selected_detectors,
                           last_run.custom_text, data_dir, scrubadub_spacy, {})
        filths == ScrubberIterFilth(s.scrubber.detector_list, last_run.text)
    IN  [detector_list |-> s.scrubber.detector_list,
         filths |-> ProcessFilth(NewReplacer(replacer.algorithm, replacer.modulus),
                                 filths).out]

\* C2: a pipeline run yields the matches and the replacement strings that
\* its text, locale, selection, custom text and hash configuration yield in
\* a process that has run nothing else, whatever ran before it.
C2_Deterministic ==
    last_run.done => last_run.filths = FreshRun.filths

\* C2 witness: a Dutch run that found several matches with a replacer that
\* had replaced another document before, in a process whose shared cache an
\* earlier run had filled.
C2_Witness ==
    /\ last_run.done
    /\ last_run.reran
    /\ last_run.locale = "nl_NL"
    /\ last_run.cache_before # {}
    /\ Len(last_run.filths) >= 2
    /\ \E x \in issued : x \notin Range(last_run.filths)
    /\ \E i \in DOMAIN last_run.filths : \E j \in DOMAIN last_run.filths :
          last_run.filths[i].type # last_run.filths[j].type

\* C4: the detectors a nl_NL setup_scrubber call builds hold the entity
\* lists the same call builds in a fresh process, and the shared cache
\* afterwards holds their entities only.
C4_FreshCachePerRun ==
    (last_run.done /\ last_run.locale = "nl_NL") =>
        /\ EntityLists(last_run.detector_list) = EntityLists(FreshRun.detector_list)
        /\ dutch_loaded_entities =
              UNION { {Lower(d[2][k]) : k \in DOMAIN d[2]} :
                      d \in Range(EntityLists(last_run.detector_list)) }

\* C4 witness: a nl_NL call entered with a cache that held an entity it then
\* loaded into one of its detectors.
C4_Witness ==
    /\ last_run.done
    /\ last_run.locale = "nl_NL"
    /\ \E d \in Range(EntityLists(last_run.detector_list)) :
          \E k \in DOMAIN d[2] : Lower(d[2][k]) \in last_run.cache_before


\* The names a Dutch entity file lists, stripped: the source list of a
\* category.
SourceList(name) ==
    LET file == DataFile(data_dir, "nl_NL", name)
        named == SelectSeq(file.entries, LAMBDA entry : "match" \in DOMAIN entry)
    IN  IF file.exists /\ file.valid
        THEN [i \in DOMAIN named |-> Strip(named[i].match)]
        ELSE <<>>

\* The Dutch categories by priority: location > organization > name.
DutchPriority == <<T_location, T_organization, T_name>>

\* For a lowercase key listed by several built Dutch categories: the one
\* built detector of highest priority that lists it keeps it, no other built
\* detector does, and an occurrence in the text, spelled as that category
\* lists it and delimited by non-letters, lies in exactly one match of the
\* Dutch detectors, of that category.
PriorityHolds(key) ==
    LET lists == EntityLists(last_run.detector_list)
        built == {lists[i][1] : i \in DOMAIN lists}
        listing == {r \in DOMAIN DutchPriority :
                       /\ DutchPriority[r] \in built
                       /\ \E k \in DOMAIN SourceList(DutchPriority[r]) :
                              Lower(SourceList(DutchPriority[r])[k]) = key}
        top == CHOOSE r \in listing : \A q \in listing : r <= q
        holders == {lists[i][1] : i \in {j \in DOMAIN lists :
                       \E k \in DOMAIN lists[j][2] : Lower(lists[j][2][k]) = key}}
        spelled == {SourceList(DutchPriority[top])[k] :
                       k \in {n \in DOMAIN SourceList(DutchPriority[top]) :
                                 Lower(SourceList(DutchPriority[top])[n]) = key}}
        dutch == {i \in DOMAIN last_run.filths :
                     last_run.filths[i].detector_name \in Range(DutchPriority)}
    IN  Cardinality(listing) >= 2 =>
            /\ holders = {DutchPriority[top]}
            /\ \A word \in spelled :
                 \A p \in OccurrencesOf(word, last_run.text) :
                    ( /\ Slice(last_run.text, p, p + Len(word)) = word
                      /\ ~AlnumAt(last_run.text, p - 1)
                      /\ ~AlnumAt(last_run.text, p + Len(word)) )
                    => LET on == {i \in dutch :
                                     /\ last_run.filths[i].beg < p + Len(word)
                                     /\ p < last_run.filths[i].end}
                       IN  /\ Cardinality(on) = 1
                           /\ \A i \in on :
                                 /\ last_run.filths[i].type = DutchPriority[top]
                                 /\ last_run.filths[i].beg <= p
                                 /\ p + Len(word) <= last_run.filths[i].end

\* The lowercase keys of all Dutch source lists.
SourceKeys ==
    UNION { {Lower(SourceList(DutchPriority[r])[k]) : k \in DOMAIN SourceList(DutchPriority[r])} :
            r \in DOMAIN DutchPriority }

\* C3: after a nl_NL setup_scrubber, an entity listed by several built
\* categories is kept by exactly one built detector, the one of highest
\* priority, and a capitalized occurrence of it yields exactly one match, of
\* that category.
C3_CategoryPriority ==
    (last_run.done /\ last_run.locale = "nl_NL") =>
        \A key \in SourceKeys : PriorityHolds(key)

\* The same for the entities that are not Dutch stop words.
PriorityOfLoadable ==
    (last_run.done /\ last_run.locale = "nl_NL") =>
        \A key \in SourceKeys \ DutchCommonWords : PriorityHolds(key)


-----------------------------------------------------------------------------
(* Specification SpecConcurrent: nl_NL requests of the web UI served by    *)
(* threads of one process.  Each runs setup_scrubber("nl_NL") with the     *)
(* default selection; the threads interleave between the reset of the      *)
(* shared cache, the filter of a detector's entities against it and the    *)
(* adding of the kept entities to it.                                      *)

ConcurrentRuns == 2

\* The Dutch entity detectors of the default nl_NL selection, in build order.
DutchSpecs ==
    SelectSeq(LOCALE_DETECTORS("nl_NL"),
              LAMBDA spec : spec.enabled_by_default
                            /\ spec.factory \in {"_build_dutch_location", "_build_dutch_org",
                                                 "_build_dutch_name"})

InitConcurrent ==
    /\ data_dir \in DataDirs
    /\ scrubadub_spacy = FALSE
    /\ dutch_loaded_entities = {}
    /\ last_run = NoRun
    /\ pc = [t \in 1..ConcurrentRuns |-> "reset"]
    /\ building = [t \in 1..ConcurrentRuns |-> [lists |-> <<>>, pending |-> <<>>]]
    /\ IdleReplacer
    /\ IdleDetect

\* DutchEntityDetector.reset_loaded_entities() at the start of setup_scrubber
Reset(t) ==
    /\ pc[t] = "reset"
    /\ dutch_loaded_entities' = ResetLoadedEntities("nl_NL", dutch_loaded_entities)
    /\ pc' = [pc EXCEPT ![t] = "filter"]
    /\ UNCHANGED <<data_dir, scrubadub_spacy, last_run, building>>
    /\ UNCHANGED <<replacerVars, detectVars>>

\* The next detector's _load_json_entities up to the filter on the cache.
FilterLoaded(t) ==
    /\ pc[t] = "filter"
    /\ LET spec == DutchSpecs[Len(building[t].lists) + 1]
           kept == DutchFilterLoaded(DataFile(data_dir, "nl_NL", spec.name),
                                     dutch_loaded_entities)
       IN  building' = [building EXCEPT ![t].pending = kept]
    /\ pc' = [pc EXCEPT ![t] = "track"]
    /\ UNCHANGED <<data_dir, scrubadub_spacy, dutch_loaded_entities, last_run>>
    /\ UNCHANGED <<replacerVars, detectVars>>

\* The rest of it: the kept entities go into the cache, the detector is built.
TrackLoaded(t) ==
    /\ pc[t] = "track"
    /\ LET spec == DutchSpecs[Len(building[t].lists) + 1]
           lists == Append(building[t].lists, <<spec.name, building[t].pending>>)
       IN  /\ dutch_loaded_entities' =
                 DutchTrackLoaded(building[t].pending, dutch_loaded_entities)
           /\ building' = [building EXCEPT ![t] = [lists |-> lists, pending |-> <<>>]]
           /\ pc' = [pc EXCEPT ![t] = IF Len(lists) = Len(DutchSpecs)
                                      THEN "done" ELSE "filter"]
    /\ UNCHANGED <<data_dir, scrubadub_spacy, last_run>>
    /\ UNCHANGED <<replacerVars, detectVars>>

NextConcurrent ==
    \E t \in 1..ConcurrentRuns : Reset(t) \/ FilterLoaded(t) \/ TrackLoaded(t)

SpecConcurrent == InitConcurrent /\ [][NextConcurrent]_vars

\* The entity lists setup_scrubber("nl_NL") builds when it runs alone.
IsolatedLists ==
    EntityLists(SetupScrubber("nl_NL", NoSelection, <<>>, data_dir, scrubadub_spacy, {})
                    .scrubber.detector_list)

\* C5: whatever the interleaving of concurrent nl_NL setup_scrubber calls,
\* each call that has finished holds the entity lists of an isolated call:
\* no detector lost an entity and no two of its detectors keep the same one.
C5_ConcurrentIsolation ==
    \A t \in DOMAIN pc : pc[t] = "done" => building[t].lists = IsolatedLists


-----------------------------------------------------------------------------
(* Specification SpecMarkdown: MarkdownUrlDetector scans a document with   *)
(* markdown links and HashedPIIReplacer post-processes what it found.      *)

S_http_x == <<"h","t","t","p",":","/","/","x">>

\* One link, with one or two brackets on either side, a link text, a url
\* with the artifacts iter_filth normalizes, and text around it.
MarkdownDocs ==
    { prefix \o open \o link \o close \o <<"(">> \o url \o <<")">> \o suffix :
        prefix \in {<<>>, <<"a"," ">>},
        open \in Range(OpenAlternatives),
        link \in {<<>>, <<"a">>, <<"a"," ","b">>, <<"[","a">>},
        close \in Range(CloseAlternatives),
        url \in {<<>>, S_http_x, <<"<","w","w","w",".","x",".","n","l",">">>,
                 <<"x"," ","y",".","z",",">>},
        suffix \in {<<>>, <<" ","[","b","]","(","y",")">>} }

InitMarkdown ==
    /\ document \in MarkdownDocs
    /\ alphabet = {}
    /\ resource = NoFile
    /\ detector = [name |-> T_markdown_url, kind |-> "_build_markdown_detector"]
    /\ yielded = [done |-> FALSE, raised |-> FALSE, out |-> <<>>]
    /\ replacer \in {NewReplacer("md5", m) : m \in ModulusArgs}
    /\ processed = <<>>
    /\ issued = {}
    /\ IdlePipeline

\* list(MarkdownUrlDetector().iter_filth(document))
MarkdownScan ==
    /\ ~yielded.done
    /\ yielded' = [done |-> TRUE, raised |-> FALSE, out |-> MarkdownIterFilth(document)]
    /\ UNCHANGED <<alphabet, resource, detector, document>>
    /\ UNCHANGED replacerVars
    /\ UNCHANGED pipelineVars

\* replacer.process_filth(filths) on the filths the scan yielded
PostProcess ==
    /\ yielded.done
    /\ yielded.out # <<>>
    /\ processed = <<>>
    /\ LET r == ProcessFilth(replacer, yielded.out)
       IN  /\ replacer' = r.self
           /\ processed' = r.out
           /\ issued' = issued \cup Range(r.out)
    /\ UNCHANGED detectVars
    /\ UNCHANGED pipelineVars

NextMarkdown == MarkdownScan \/ PostProcess

SpecMarkdown == InitMarkdown /\ [][NextMarkdown]_vars

\* The bracket pairs of a source link: two when it opens with "[[".
SourceBracketPairs(link) == IF StartsWith(link, <<"[","[">>) THEN 2 ELSE 1

\* The link text of a source link: what stands between its brackets.
SourceLinkText(link) ==
    Slice(link, SourceBracketPairs(link), RunEnd(link, SourceBracketPairs(link), {"]"}))

\* s is head, then one or more digits, then ")".
IsHeadDigitsParen(s, head) ==
    /\ StartsWith(s, head)
    /\ Len(s) >= Len(head) + 2
    /\ s[Len(s)] = ")"
    /\ \A i \in (Len(head) + 1)..(Len(s) - 1) : IsDigitChar(s[i])

\* C8: the replacement string of a markdown link found by the detector is
\* the link text unchanged, in as many bracket pairs as the source link has,
\* followed by (URL-digits).
C8_BracketPairsPreserved ==
    \A i \in DOMAIN processed :
        LET f == processed[i]
            n == SourceBracketPairs(f.text)
        IN  IsHeadDigitsParen(f.replacement_string,
                Repeat("[", n) \o SourceLinkText(f.text) \o Repeat("]", n)
                \o <<"(">> \o S_URL \o <<"-">>)

\* The same for the links written with one bracket pair.
SinglePairPreserved ==
    \A i \in DOMAIN processed :
        SourceBracketPairs(processed[i].text) = 1 =>
            IsHeadDigitsParen(processed[i].replacement_string,
                <<"[">> \o SourceLinkText(processed[i].text) \o <<"]">>
                \o <<"(">> \o S_URL \o <<"-">>)


-----------------------------------------------------------------------------
(* Specification SpecIP: a dotted quad is typed octet by octet and then    *)
(* scanned, alone or between spaces, by both IP detectors.                 *)

\* Octets on both sides of the private ranges.
IPOctets ==
    { <<"0">>, <<"8">>, <<"1","0">>, <<"1","5">>, <<"1","6">>, <<"3","1">>, <<"3","2">>,
      <<"1","6","0">>, <<"1","6","8">>, <<"1","7","2">>, <<"1","9","2">> }

\* s.split(".")
RECURSIVE SplitDots(_)
SplitDots(s) ==
    LET dot == Find(s, <<".">>, 0)
    IN  IF dot = -1 THEN <<s>>
        ELSE <<Slice(s, 0, dot)>> \o SplitDots(Slice(s, dot + 1, Len(s)))

\* The octets typed so far.
TypedOctets == IF document = <<>> THEN <<>> ELSE SplitDots(Strip(document))

InitIP ==
    /\ document = <<>>
    /\ alphabet = {}
    /\ resource = NoFile
    /\ detector = [name |-> T_private_ip, kind |-> "_build_private_ip_detector"]
    /\ yielded = [done |-> FALSE, raised |-> FALSE, out |-> <<>>]
    /\ IdleReplacer
    /\ IdlePipeline

\* One more octet of the literal.
TypeOctet ==
    /\ ~yielded.done
    /\ Len(TypedOctets) < 4
    /\ \E octet \in IPOctets :
          document' = IF document = <<>> THEN octet ELSE document \o <<".">> \o octet
    /\ UNCHANGED <<alphabet, resource, detector, yielded>>
    /\ UNCHANGED replacerVars
    /\ UNCHANGED pipelineVars

\* list(PrivateIPDetector().iter_filth(text)) + list(PublicIPDetector().iter_filth(text))
\* for the literal alone or between spaces
ScanIP ==
    /\ ~yielded.done
    /\ Len(TypedOctets) = 4
    /\ \E pad \in {<<>>, <<" ">>} :
          LET text == pad \o document \o pad
          IN  /\ document' = text
              /\ yielded' = [done |-> TRUE, raised |-> FALSE,
                             out |-> IPIterFilth(TRUE, text, 0)
                                     \o IPIterFilth(FALSE, text, 0)]
    /\ UNCHANGED <<alphabet, resource, detector>>
    /\ UNCHANGED replacerVars
    /\ UNCHANGED pipelineVars

NextIP == TypeOctet \/ ScanIP

SpecIP == InitIP /\ [][NextIP]_vars

\* int(s) for a string of digits
RECURSIVE IntOfDigits(_)
IntOfDigits(s) ==
    IF s = <<>> THEN 0
    ELSE 10 * IntOfDigits(SubSeq(s, 1, Len(s) - 1)) + (IndexOf(DigitChars, s[Len(s)]) - 1)

\* The literal lies in 192.168.*, 10.0.* or 172.16-31.*.
InPrivateRanges(octets) ==
    LET a == IntOfDigits(octets[1])
        b == IntOfDigits(octets[2])
    IN  \/ a = 192 /\ b = 168
        \/ a = 10 /\ b = 0
        \/ a = 172 /\ b >= 16 /\ b <= 31

\* A detector of the given filth type yielded a match.
YieldedOfType(type) == \E i \in DOMAIN yielded.out : yielded.out[i].type = type

\* C9: for a dotted quad standing alone, at most one of the private and the
\* public detector yields a match; the private one matches exactly the
\* literals in 192.168.*, 10.0.* and 172.16-31.*, the public one none of them.
C9_PrivatePublicExclusive ==
    yielded.done =>
        /\ ~(YieldedOfType(T_private_ip) /\ YieldedOfType(T_public_ip))
        /\ YieldedOfType(T_private_ip) <=> InPrivateRanges(TypedOctets)
        /\ InPrivateRanges(TypedOctets) => ~YieldedOfType(T_public_ip)

\* The same for the literals outside 172.*.
ExclusiveOutside172 ==
    (yielded.done /\ TypedOctets[1] # <<"1","7","2">>) =>
        /\ ~(YieldedOfType(T_private_ip) /\ YieldedOfType(T_public_ip))
        /\ YieldedOfType(T_private_ip) <=> InPrivateRanges(TypedOctets)
        /\ InPrivateRanges(TypedOctets) => ~YieldedOfType(T_public_ip)

-----------------------------------------------------------------------------
(* Specification SpecPlaceholder: one HashedPIIReplacer built with any     *)
(* algorithm and modulus argument, handed filths of several types and      *)
(* texts one list at a time.                                               *)

\* modulus arguments: below 1, 1, and values whose m - 1 has 1, 3, 4 and 5
\* digits.
PlaceholderModulusArgs == {-3, 1, 10, 1000, 1001, 100000}

T_unknown == <<"u","n","k","n","o","w","n">>

\* FakeFilth(ftype, text) of the repository's tests: an object with a type, a
\* text and an empty replacement_string.
FakeFilth(ftype, text) ==
    [cls |-> "FakeFilth", type |-> ftype, text |-> text, replacement_string |-> <<>>]

\* The filths handed to the replacer: plain words, URL-shaped texts in
\* several spellings, a text that only resembles a URL, a markdown-style
\* link of a generic type, a bare domain of type url, a markdown filth.
PlaceholderFilthPool ==
    { FakeFilth(T_name, S_Al),
      FakeFilth(T_location, <<"f","t","p",":","/","x">>),
      FakeFilth(T_unknown, <<"H","t","t","p",":","/","/","x">>),
      FakeFilth(T_custom, <<"W","W","W",".","a">>),
      FakeFilth(T_name,
                <<"a"," ","S","h","a","r","e","p","o","i","n","t",".","c","o","m","/">>),
      FakeFilth(T_unknown, <<"[","a","]"," ","(","b",":","/","/","c",")">>),
      FakeFilth(T_url, <<"a",".","b">>),
      MarkdownUrlFilth(0, 6, <<"[","a","]","(","b",")">>, <<"a">>, <<"b">>,
                       1, T_markdown_url) }

InitPlaceholder ==
    /\ replacer \in {NewReplacer(a, m) : a \in {"md5", "sha256"},
                                          m \in PlaceholderModulusArgs}
    /\ processed = <<>>
    /\ issued = {}
    /\ IdleDetect
    /\ IdlePipeline

\* replacer.process_filth([filth])
ProcessPoolFilth ==
    \E filth \in PlaceholderFilthPool :
    \E r \in {ProcessFilth(replacer, <<filth>>)} :
        /\ replacer' = r.self
        /\ processed' = r.out
        /\ issued' = issued \cup Range(r.out)
        /\ UNCHANGED detectVars
        /\ UNCHANGED pipelineVars

NextPlaceholder == ProcessPoolFilth

SpecPlaceholder == InitPlaceholder /\ [][NextPlaceholder]_vars

\* The part of a placeholder token before its last "-", and the part after.
PrefixOf(f) == Slice(TokenOf(f), 0, LastIndexOf(TokenOf(f), "-"))
NumberOf(f) == Slice(TokenOf(f), LastIndexOf(TokenOf(f), "-") + 1, Len(TokenOf(f)))

\* The number of decimal digits of n >= 0.
DecimalDigits(n) == CHOOSE k \in 1..7 : n < 10 ^ k /\ (k = 1 \/ n >= 10 ^ (k - 1))

\* C11: the modulus of a replacer is at least 1, and every placeholder it
\* issues has the form CATEGORY-digits, where the digits are the decimal
\* form of an integer in [0, modulus), zero-padded to exactly
\* max(3, number of digits of modulus - 1) digits.
C11_PlaceholderWidth ==
    /\ replacer.modulus \in {IF m < 1 THEN 1 ELSE m : m \in PlaceholderModulusArgs}
    /\ \A f \in issued :
          LET width == IF DecimalDigits(replacer.modulus - 1) > 3
                       THEN DecimalDigits(replacer.modulus - 1) ELSE 3
          IN  /\ LastIndexOf(TokenOf(f), "-") >= 1
              /\ Len(NumberOf(f)) = width
              /\ \A i \in DOMAIN NumberOf(f) : IsDigitChar(NumberOf(f)[i])
              /\ IntOfDigits(NumberOf(f)) >= 0
              /\ IntOfDigits(NumberOf(f)) < replacer.modulus

\* C11 witness: a replacer whose modulus - 1 has five digits issued a number
\* with leading zeros and one without, both five digits wide.
C11_Witness ==
    /\ replacer.modulus = 100000
    /\ \E f \in issued : \E g \in issued :
          /\ Len(NumberOf(f)) = 5
          /\ Len(NumberOf(g)) = 5
          /\ NumberOf(f)[1] = "0"
          /\ NumberOf(g)[1] # "0"

\* URL-shaped text: it starts with http://, https://, ftp:// or www., or
\* contains sharepoint.com/, in any case.
UrlShaped(text) ==
    \/ \E p \in {S_http, S_https, S_ftp, S_www} :
          Len(text) >= Len(p) /\ Lower(SubSeq(text, 1, Len(p))) = p
    \/ \E i \in 0..Len(text) :
          Lower(Slice(text, i, i + Len(S_sharepoint_slash))) = S_sharepoint_slash

\* Markdown-link-shaped text: without its spaces it starts with "[" and
\* holds "](" and "://".
LinkShaped(text) ==
    LET kept == SelectSeq(text, LAMBDA c : c # " ")
    IN  /\ kept # <<>>
        /\ kept[1] = "["
        /\ \E i \in 1..(Len(kept) - 1) : kept[i] = "]" /\ kept[i + 1] = "("
        /\ \E i \in 1..(Len(kept) - 2) :
              kept[i] = ":" /\ kept[i + 1] = "/" /\ kept[i + 2] = "/"

\* C12 as stated: the prefix is URL if and only if the type is markdown_url
\* or the text is URL-shaped; every other filth has its type in upper case.
C12_UrlPrefix ==
    \A f \in issued :
        /\ (PrefixOf(f) = S_URL) <=> (f.type = T_markdown_url \/ UrlShaped(f.text))
        /\ ~(f.type = T_markdown_url \/ UrlShaped(f.text))
              => PrefixOf(f) = Upper(f.type)

\* C12 amended: the prefix is URL when the type is markdown_url or the text
\* is URL-shaped or markdown-link-shaped; every other filth has its type in
\* upper case (which is URL for the type url).
C12_UrlPrefixOrLink ==
    \A f \in issued :
        IF f.type = T_markdown_url \/ UrlShaped(f.text) \/ LinkShaped(f.text)
        THEN PrefixOf(f) = S_URL
        ELSE PrefixOf(f) = Upper(f.type)

\* C12 witness: a markdown-style link of a generic type got the prefix URL,
\* a URL-shaped name did too, and a location that only resembles a URL kept
\* its own type.
C12_Witness ==
    /\ \E f \in issued :
          /\ f.type = T_unknown
          /\ LinkShaped(f.text)
          /\ ~UrlShaped(f.text)
          /\ PrefixOf(f) = S_URL
    /\ \E f \in issued : f.type = T_name /\ UrlShaped(f.text) /\ PrefixOf(f) = S_URL
    /\ \E f \in issued : f.type = T_location /\ PrefixOf(f) = Upper(T_location)

-----------------------------------------------------------------------------
(* Specification SpecSetup: setup_scrubber called any number of times in   *)
(* one process, for supported and unsupported locales, with and without a  *)
(* selection and a custom text, with scrubadub_spacy installed or not.     *)

S_bogus == <<"b","o","g","u","s">>

SetupLocales == {"nl_NL", "en_US", "fr_FR"}

\* selected_detectors: None, the empty list, names in an order other than
\* the declaration order, names in upper case, unknown names, the optional
\* detectors.
SetupSelections ==
    { NoSelection,
      <<>>,
      <<T_url, T_name, T_location, T_markdown_url>>,
      <<Upper(T_location), S_bogus, T_sharepoint_url>>,
      <<S_bogus>>,
      <<T_spacy_entities, T_date_of_birth, T_public_ip, T_email>> }

InitSetup ==
    /\ data_dir \in DataDirs
    /\ scrubadub_spacy \in BOOLEAN
    /\ dutch_loaded_entities = {}
    /\ last_run = NoRun
    /\ pc = <<>>
    /\ building = <<>>
    /\ IdleReplacer
    /\ IdleDetect

\* setup_scrubber(locale, selected_detectors, custom_text)
SetupCall ==
    \E locale \in SetupLocales, selected_detectors \in SetupSelections,
       custom_text \in PipelineCustomTexts :
    \E s \in {SetupScrubber(locale, selected_detectors, custom_text, data_dir,
                            scrubadub_spacy, dutch_loaded_entities)} :
        /\ dutch_loaded_entities' = s.cache
        /\ last_run' = [done |-> TRUE, reran |-> FALSE, locale |-> locale,
                        selected_detectors |-> selected_detectors,
                        custom_text |-> custom_text, text |-> <<>>,
                        cache_before |-> dutch_loaded_entities,
                        detector_list |-> s.scrubber.detector_list,
                        filths |-> <<>>, log |-> s.log]
        /\ UNCHANGED <<data_dir, scrubadub_spacy, pc, building>>
        /\ UNCHANGED <<replacerVars, detectVars>>

NextSetup == SetupCall

SpecSetup == InitSetup /\ [][NextSetup]_vars

\* The catalogue of a locale as declared: generic first, then the locale's.
Declared(locale) == GENERIC_DETECTORS \o LOCALE_DETECTORS(locale)

\* The declared specs that are enabled in this process.
EnabledDeclared(locale) ==
    SelectSeq(Declared(locale), LAMBDA spec :
                 spec.enabled = "None" \/ (scrubadub_spacy /\ locale \in {"nl_NL", "en_US"}))

\* The catalogue name of the spec a detector was built from.
BuiltFrom(det) ==
    IF "kind" \in DOMAIN det /\ det.kind = "_build_spacy_detector"
    THEN T_spacy_entities ELSE det.name

\* The catalogue names of the detectors of the last scrubber, in list order,
\* the custom word detector left out.
BuiltNames ==
    LET catalogue == SelectSeq(last_run.detector_list,
                               LAMBDA d : ~("kind" \in DOMAIN d /\ d.kind = "custom"))
    IN  [i \in DOMAIN catalogue |-> BuiltFrom(catalogue[i])]

\* The position of a name in the declared catalogue of the last run's locale.
DeclaredAt(name) ==
    CHOOSE k \in DOMAIN Declared(last_run.locale) : Declared(last_run.locale)[k].name = name

\* C13: the catalogue detectors of a scrubber stand in declaration order,
\* generic catalogue first, then the locale's, whatever the order of the
\* selection; markdown_url and sharepoint_url, when built, precede url.
C13_DeclarationOrder ==
    last_run.done =>
        /\ \A i \in DOMAIN BuiltNames : \A j \in DOMAIN BuiltNames :
              i < j => DeclaredAt(BuiltNames[i]) < DeclaredAt(BuiltNames[j])
        /\ \A i \in DOMAIN BuiltNames : \A j \in DOMAIN BuiltNames :
              ( /\ BuiltNames[i] \in {GENERIC_DETECTORS[k].name : k \in DOMAIN GENERIC_DETECTORS}
                /\ BuiltNames[j] \notin {GENERIC_DETECTORS[k].name : k \in DOMAIN GENERIC_DETECTORS} )
              => i < j
        /\ \A i \in DOMAIN BuiltNames : \A j \in DOMAIN BuiltNames :
              (BuiltNames[i] \in {T_markdown_url, T_sharepoint_url} /\ BuiltNames[j] = T_url)
              => i < j

\* C13 witness: a Dutch selection that names url before markdown_url and
\* name before location built all four, after a custom word detector.
C13_Witness ==
    /\ last_run.done
    /\ last_run.locale = "nl_NL"
    /\ last_run.selected_detectors = <<T_url, T_name, T_location, T_markdown_url>>
    /\ last_run.custom_text # <<>>
    /\ BuiltNames = <<T_markdown_url, T_url, T_location, T_name>>

\* The names of the specs among `specs` that satisfy `keep`, in order.
NamesWhere(specs, keep(_)) ==
    LET kept == SelectSeq(specs, keep)
    IN  [i \in DOMAIN kept |-> kept[i].name]

\* C14: with selected_detectors = None, setup_scrubber for nl_NL or en_US
\* builds one detector for every enabled spec with enabled_by_default and
\* none for another spec.
C14_DefaultSelection ==
    ( /\ last_run.done
      /\ last_run.selected_detectors = NoSelection
      /\ last_run.locale \in {"nl_NL", "en_US"} )
    => BuiltNames = NamesWhere(EnabledDeclared(last_run.locale),
                               LAMBDA spec : spec.enabled_by_default)

\* The same without sharepoint_url.
DefaultsButSharepoint ==
    ( /\ last_run.done
      /\ last_run.selected_detectors = NoSelection
      /\ last_run.locale \in {"nl_NL", "en_US"} )
    => BuiltNames = NamesWhere(EnabledDeclared(last_run.locale),
                               LAMBDA spec : /\ spec.enabled_by_default
                                             /\ spec.name # T_sharepoint_url)

\* The lowercased names of an explicit selection.
LoweredSelection ==
    {Lower(last_run.selected_detectors[i]) : i \in DOMAIN last_run.selected_detectors}

\* C15: for an explicit selection setup_scrubber returns a scrubber with
\* exactly the enabled specs whose name is in the lowercased selection (no
\* default set for an empty or all-unknown selection), and the warning names
\* the unknown names.
C15_ExplicitSelection ==
    (last_run.done /\ last_run.selected_detectors # NoSelection) =>
        /\ BuiltNames = NamesWhere(EnabledDeclared(last_run.locale),
                                   LAMBDA spec : spec.name \in LoweredSelection)
        /\ last_run.log.invalid =
              LoweredSelection \ {EnabledDeclared(last_run.locale)[k].name :
                                     k \in DOMAIN EnabledDeclared(last_run.locale)}

\* The same without sharepoint_url.
SelectionButSharepoint ==
    (last_run.done /\ last_run.selected_detectors # NoSelection) =>
        /\ BuiltNames = NamesWhere(EnabledDeclared(last_run.locale),
                                   LAMBDA spec : /\ spec.name \in LoweredSelection
                                                 /\ spec.name # T_sharepoint_url)
        /\ last_run.log.invalid =
              LoweredSelection \ {EnabledDeclared(last_run.locale)[k].name :
                                     k \in DOMAIN EnabledDeclared(last_run.locale)}

-----------------------------------------------------------------------------
(* Specification SpecScrub: calls of scrub_text and run_multi_locale_scrub *)
(* (sanitize_text/core/scrubber.py), each for the one locale it is asked   *)
(* for.  Building or running the scrubber may raise.                       *)

S_default_locale == "nl_NL"

\* The locale argument: None is "".
ScrubLocales == {"", "en_US"}

\* On the last document the span of "La" computed on text.lower() starts
\* beyond the end of the text.
ScrubDocs ==
    { <<"L","a"," ","A","l">>,
      <<"I_dot","I_dot","I_dot"," ","L","a">> }

ScrubSelections == {NoSelection, <<T_name, T_email>>}

\* scrubber.clean(text): [raised, filths].  The detectors run in list order
\* and an exception of a detector's iter_filth ends the call; filths are the
\* filths clean replaces in the text.
ScrubberClean(detector_list, text) ==
    [raised |-> \E i \in DOMAIN detector_list :
                    /\ "automaton" \in DOMAIN detector_list[i]
                    /\ IterFilth(detector_list[i], text,
                                 ProcessOrder(detector_list[i].multi_word_entities)).raised,
     filths |-> ScrubberIterFilth(detector_list, text)]

\* scrub_text returning its outcome whatever happened.
ScrubTextAlwaysReturns(current_locale, s, cleaned, library_raises) ==
    [fn |-> "scrub_text",
     raised |-> FALSE,
     results |-> IF library_raises \/ cleaned.raised THEN {}
                 ELSE {<<current_locale, cleaned.filths>>},
     detectors |-> {},
     errors |-> IF library_raises \/ cleaned.raised THEN {current_locale} ELSE {}]

\* scrub_text for current_locale, given s, what setup_scrubber returned,
\* and cleaned, what scrubber.clean(text) did; library_raises is whether
\* scrubadub (its Scrubber constructor, its clean) raised by itself.
\* raised is whether the call ends in Exception("All processing attempts
\* failed"), else results, detectors and errors are the texts, detectors
\* and errors of the ScrubOutcome.
ScrubText(current_locale, s, cleaned, library_raises) ==
    [fn |-> "scrub_text",
     raised |-> library_raises \/ cleaned.raised,
     results |-> IF library_raises \/ cleaned.raised THEN {}
                 ELSE {<<current_locale, cleaned.filths>>},
     detectors |-> IF library_raises \/ cleaned.raised THEN {}
                   ELSE {<<current_locale,
                           [i \in DOMAIN s.scrubber.detector_list |->
                               s.scrubber.detector_list[i].name]>>},
     errors |-> IF library_raises \/ cleaned.raised THEN {current_locale} ELSE {}]

\* run_multi_locale_scrub for current_locale: the MultiLocaleResult, filth
\* being what collect_filth returned when include_filth, else None (<<>>).
\* The function has no raise statement: it returns results and errors
\* whatever happened.
RunMultiLocaleScrub(current_locale, s, cleaned, library_raises, filth) ==
    [fn |-> "run_multi_locale_scrub",
     raised |-> FALSE,
     results |-> IF library_raises \/ cleaned.raised THEN {}
                 ELSE {<<current_locale, cleaned.filths, filth>>},
     detectors |-> {},
     errors |-> IF library_raises \/ cleaned.raised THEN {current_locale} ELSE {}]

InitScrub ==
    /\ data_dir \in DataDirs
    /\ scrubadub_spacy = FALSE
    /\ dutch_loaded_entities = {}
    /\ last_run = NoRun
    /\ pc = <<>>
    /\ building = <<>>
    /\ IdleReplacer
    /\ IdleDetect

\* A caller calls scrub_text(text, locale, selected_detectors, custom_text).
CallScrubText ==
    \E text \in ScrubDocs, locale \in ScrubLocales,
       selected_detectors \in ScrubSelections, custom_text \in PipelineCustomTexts,
       library_raises \in BOOLEAN :
        \E current_locale \in {IF locale = "" THEN S_default_locale ELSE locale} :
        \E s \in {SetupScrubber(current_locale, selected_detectors, custom_text,
                               data_dir, scrubadub_spacy, dutch_loaded_entities)} :
        \E cleaned \in {ScrubberClean(s.scrubber.detector_list, text)} :
            /\ dutch_loaded_entities' = s.cache
            /\ last_run' = [done |-> TRUE, locale |-> locale, text |-> text,
                            library_raises |-> library_raises,
                            outcome |-> ScrubText(current_locale, s, cleaned,
                                                  library_raises)]
            /\ UNCHANGED <<data_dir, scrubadub_spacy, pc, building>>
            /\ UNCHANGED replacerVars
            /\ UNCHANGED detectVars

\* A caller calls run_multi_locale_scrub(text=, locale=,
\* per_locale_detectors=, custom_text=, include_filth=);
\* detectors_for_locale None is NoSelection.  With include_filth and no
\* exception before, collect_filth builds a scrubber of its own.
CallRunMultiLocaleScrub ==
    \E text \in ScrubDocs, locale \in ScrubLocales,
       detectors_for_locale \in ScrubSelections, custom_text \in PipelineCustomTexts,
       include_filth \in BOOLEAN, library_raises \in BOOLEAN :
        \E current_locale \in {IF locale = "" THEN S_default_locale ELSE locale} :
        \E s \in {SetupScrubber(current_locale, detectors_for_locale, custom_text,
                               data_dir, scrubadub_spacy, dutch_loaded_entities)} :
        \E cleaned \in {ScrubberClean(s.scrubber.detector_list, text)} :
        \E collected \in {IF include_filth /\ ~(library_raises \/ cleaned.raised)
                          THEN SetupScrubber(current_locale, detectors_for_locale,
                                             custom_text, data_dir, scrubadub_spacy,
                                             s.cache)
                          ELSE s} :
        \E filth \in {IF include_filth /\ ~(library_raises \/ cleaned.raised)
                      THEN ProcessFilth(NewReplacer(replacer.algorithm, replacer.modulus),
                                        ScrubberIterFilth(collected.scrubber.detector_list,
                                                          text)).out
                      ELSE <<>>} :
            /\ dutch_loaded_entities' = collected.cache
            /\ last_run' = [done |-> TRUE, locale |-> locale, text |-> text,
                            library_raises |-> library_raises,
                            outcome |-> RunMultiLocaleScrub(current_locale, s, cleaned,
                                                            library_raises, filth)]
            /\ UNCHANGED <<data_dir, scrubadub_spacy, pc, building>>
            /\ UNCHANGED replacerVars
            /\ UNCHANGED detectVars

NextScrub == CallScrubText \/ CallRunMultiLocaleScrub

SpecScrub == InitScrub /\ [][NextScrub]_vars

\* The locale the last call processed.
RequestedLocale == IF last_run.locale = "" THEN S_default_locale ELSE last_run.locale

\* The exception of the requested locale is recorded in errors, and a
\* locale is in errors or has a result, never both.
ErrorsRecorded ==
    last_run.done =>
        /\ last_run.outcome.errors \subseteq {RequestedLocale}
        /\ (last_run.outcome.errors = {}) = (last_run.outcome.results # {})

\* C16 as the specification states it: in scrub_text and in
\* run_multi_locale_scrub the exception of a locale is recorded in
\* errors[locale], and the call raises to its caller exactly when no
\* requested locale produced a result.
C16_HardErrorIffNoResult ==
    /\ ErrorsRecorded
    /\ last_run.done => (last_run.outcome.raised = (last_run.outcome.results = {}))

\* C16 as the code has it: both functions record the exception of a locale
\* in errors[locale]; scrub_text raises to its caller exactly when no
\* requested locale produced a result, and run_multi_locale_scrub never
\* raises: it returns empty results with the errors.
C16_ScrubTextRaisesIffNoResult ==
    /\ ErrorsRecorded
    /\ last_run.done =>
          IF last_run.outcome.fn = "scrub_text"
          THEN last_run.outcome.raised = (last_run.outcome.results = {})
          ELSE ~last_run.outcome.raised

\* A detector raised on the document while the library did not, and
\* scrub_text ended in the exception.
C16_Witness ==
    /\ last_run.done
    /\ ~last_run.library_raises
    /\ last_run.outcome.fn = "scrub_text"
    /\ last_run.outcome.raised
    /\ last_run.outcome.results = {}
    /\ last_run.outcome.errors = {RequestedLocale}

-----------------------------------------------------------------------------
(* Specification SpecLoad: the pipeline runs of SpecPipeline over data     *)
(* directories in which the entity file of a category fails to load.       *)

\* The location file: missing; unreadable or not JSON (open or json.load
\* raises); an entry without "match" first; one after two entries; sound.
LoadLocationFiles ==
    { NoFile,
      [exists |-> TRUE, valid |-> FALSE, entries |-> <<>>],
      [exists |-> TRUE, valid |-> TRUE,
       entries |-> << [other |-> S_La], [match |-> S_La] >>],
      [exists |-> TRUE, valid |-> TRUE,
       entries |-> << [match |-> S_La], [match |-> S_l_A], [other |-> S_La] >>],
      JSONFile(<<S_La>>) }

\* The name file: an entry without "match" in the middle, or sound.
LoadNameFiles ==
    { [exists |-> TRUE, valid |-> TRUE,
       entries |-> << [match |-> <<"A","a","l">>], [other |-> S_La], [match |-> S_La] >>],
      JSONFile(<< <<"A","a","l">>, S_La >>) }

InitLoad ==
    /\ \E location \in LoadLocationFiles, name \in LoadNameFiles :
          \E d \in {[location |-> location,
                     organization |-> JSONFile(<<S_La, S_l_A, S_A_amp_l>>),
                     name |-> name]} :
              data_dir = [nl_NL |-> d, en_US |-> d]
    /\ scrubadub_spacy = FALSE
    /\ dutch_loaded_entities = {}
    /\ last_run = NoRun
    /\ pc = <<>>
    /\ building = <<>>
    /\ replacer = NewReplacer("md5", 1000)
    /\ processed = <<>>
    /\ issued = {}
    /\ IdleDetect

NextLoad == CollectFilth

SpecLoad == InitLoad /\ [][NextLoad]_vars

EntityCategories == {T_location, T_organization, T_name}

\* Loading the file fails: _load_json_entities returns at the warning for
\* a missing file or ends in its except clause.
LoadFails(file) ==
    \/ ~file.exists
    \/ ~file.valid
    \/ \E i \in DOMAIN file.entries : "match" \notin DOMAIN file.entries[i]

\* The data directory with an empty list in place of every file that fails
\* to load.
WithoutFailedFiles(data) ==
    LET Sound(file) == IF LoadFails(file) THEN JSONFile(<<>>) ELSE file
        SoundDir(d) == [location |-> Sound(d.location),
                        organization |-> Sound(d.organization),
                        name |-> Sound(d.name)]
    IN  [nl_NL |-> SoundDir(data.nl_NL), en_US |-> SoundDir(data.en_US)]

\* The entity detectors of the last run, by category.
BuiltEntityDetectors ==
    {last_run.detector_list[i] : i \in {j \in DOMAIN last_run.detector_list :
                                           last_run.detector_list[j].name \in EntityCategories}}

\* The detector list of the last run had every failing file held an empty
\* list.
DetectorsWithoutFailedFiles ==
    SetupScrubber(last_run.locale, last_run.selected_detectors, last_run.custom_text,
                  WithoutFailedFiles(data_dir), scrubadub_spacy,
                  last_run.cache_before).scrubber.detector_list

\* C17: when the entity file of a category fails to load (missing,
\* unreadable, not JSON, or an entry without a string "match" anywhere in
\* the list), the constructor still returns a detector, its entity list is
\* empty, it yields no match, and the detectors of the other categories
\* are what they are with an empty list in that category.
C17_LoadFailureEmptiesCategory ==
    last_run.done =>
        /\ \A det \in BuiltEntityDetectors :
              LoadFails(DataFile(data_dir, last_run.locale, det.name)) =>
                  /\ det.entities = <<>>
                  /\ \A i \in DOMAIN last_run.filths :
                        last_run.filths[i].detector_name # det.name
        /\ last_run.detector_list = DetectorsWithoutFailedFiles

\* The part that holds: a file that is missing, unreadable, not JSON or
\* whose first entry has no "match" gives a detector with an empty list
\* that yields nothing, and a file that fails later gives the entries
\* before the failing one.
FailureKeepsEntriesBefore ==
    last_run.done =>
        \A det \in BuiltEntityDetectors :
            LET file == DataFile(data_dir, last_run.locale, det.name)
            IN  /\ (\/ ~file.exists \/ ~file.valid
                    \/ (file.entries # <<>> /\ "match" \notin DOMAIN file.entries[1]))
                      => /\ det.entities = <<>>
                         /\ \A i \in DOMAIN last_run.filths :
                               last_run.filths[i].detector_name # det.name
                /\ LoadFails(file) /\ file.exists /\ file.valid =>
                      LET bad == CHOOSE i \in DOMAIN file.entries :
                                    /\ "match" \notin DOMAIN file.entries[i]
                                    /\ \A j \in 1..(i - 1) : "match" \in DOMAIN file.entries[j]
                      IN  \A k \in DOMAIN det.entities :
                              \E j \in 1..(bad - 1) : file.entries[j].match = det.entities[k]

-----------------------------------------------------------------------------
(* BareDomainDetector                                                      *)
(* (sanitize_text/utils/custom_detectors/url_detector.py)                  *)

\* COMMON_TLDS without its two-letter alternatives, which "[a-z][a-z]"
\* covers.
COMMON_TLDS ==
    { <<"c","o","m">>, <<"n","e","t">>, <<"o","r","g">>, <<"e","d","u">>, <<"g","o","v">>,
      <<"m","i","l">>, <<"b","i","z">>, <<"i","n","f","o">>, <<"n","a","m","e">>,
      <<"m","u","s","e","u","m">>, <<"c","o","o","p">>, <<"a","e","r","o">>, <<"d","e","v">>,
      <<"a","p","p">>, <<"c","l","o","u","d">>, <<"d","i","g","i","t","a","l">>,
      <<"t","e","c","h">>, <<"o","n","l","i","n","e">>, <<"s","i","t","e">>, <<"w","e","b">>,
      <<"b","l","o","g">>, <<"s","h","o","p">>, <<"s","t","o","r","e">>,
      <<"a","c","a","d","e","m","y">>, <<"a","g","e","n","c","y">>,
      <<"b","u","s","i","n","e","s","s">>, <<"c","e","n","t","e","r">>,
      <<"c","o","m","p","a","n","y">>, <<"c","o","n","s","u","l","t","i","n","g">>,
      <<"f","o","u","n","d","a","t","i","o","n">>, <<"i","n","s","t","i","t","u","t","e">>,
      <<"i","n","t","e","r","n","a","t","i","o","n","a","l">>,
      <<"m","a","n","a","g","e","m","e","n","t">>, <<"m","a","r","k","e","t","i","n","g">>,
      <<"s","o","l","u","t","i","o","n","s">>, <<"t","e","c","h","n","o","l","o","g","y">>,
      <<"u","n","i","v","e","r","s","i","t","y">>, <<"s","y","s","t","e","m","s">>,
      <<"s","e","r","v","i","c","e","s">>, <<"s","u","p","p","o","r","t">>,
      <<"s","c","i","e","n","c","e">>, <<"s","o","f","t","w","a","r","e">>,
      <<"s","t","u","d","i","o">>, <<"t","r","a","i","n","i","n","g">>,
      <<"v","e","n","t","u","r","e","s">>, <<"s","h","a","r","e","p","o","i","n","t">>,
      <<"m","i","c","r","o","s","o","f","t">> }

S_point_com == <<"p","o","i","n","t",".","c","o","m">>
S_sharepoint_com == <<"s","h","a","r","e","p","o","i","n","t",".","c","o","m">>
S_sharepointcom == <<"s","h","a","r","e","p","o","i","n","t","c","o","m">>
S_sharepoint == <<"s","h","a","r","e","p","o","i","n","t">>
S_share == <<"s","h","a","r","e">>
S_slash == <<"/">>

\* [a-z0-9] under re.IGNORECASE
IsDomainChar(c) == c \in LowerLetters \cup UpperLetters \cup Digits

\* \b at the 0-based position pos of text
WordBoundary(text, pos) ==
    (pos > 0 /\ IsWordChar(text[pos])) # (pos < Len(text) /\ IsWordChar(text[pos + 1]))

\* The end of the run of characters that satisfy keep, from pos on.
RunOf(text, pos, keep(_)) ==
    LET stops == {i \in pos..(Len(text) - 1) : ~keep(text[i + 1])}
    IN  IF stops = {} THEN Len(text) ELSE CHOOSE i \in stops : \A j \in stops : i <= j

\* The end of "[a-z0-9](?:[a-z0-9-]*[a-z0-9])?\." matched at pos, else -1:
\* the label is the whole run of letters, digits and hyphens before a dot.
LabelDot(text, pos) ==
    LET e == RunOf(text, pos, LAMBDA c : IsDomainChar(c) \/ c = "-")
    IN  IF /\ e > pos
           /\ IsDomainChar(text[pos + 1])
           /\ IsDomainChar(text[e])
           /\ e < Len(text)
           /\ text[e + 1] = "."
        THEN e + 1 ELSE -1

\* The end of tld_pattern, the optional path and the closing \b matched at
\* pos, else -1.  The closing \b leaves the top-level domain no choice: it
\* is the whole run of word characters at pos; the path is the longest one
\* that ends at a word boundary.
TldPathEnd(text, pos) ==
    LET r == RunOf(text, pos, IsWordChar)
        tld == Lower(Slice(text, pos, r))
        stop == RunOf(text, r, LAMBDA c : ~IsSpaceChar(c) /\ c \notin {"<", ">"})
        ends == {e \in (r + 1)..stop : WordBoundary(text, e)}
    IN  IF ~(\/ tld \in COMMON_TLDS
             \/ (Len(tld) = 2 /\ \A i \in 1..2 : tld[i] \in LowerLetters))
        THEN -1
        ELSE IF r < Len(text) /\ text[r + 1] = "/" /\ ends # {}
        THEN CHOOSE e \in ends : \A f \in ends : f <= e
        ELSE r

\* The end of "(?:label\.)*label\.TLD(?:/[^\s<>]*)?\b" matched at pos, else
\* -1; labels counts the labels before pos.  The greedy star takes every
\* label it can and gives them back one by one.  An optional "www\." in
\* front is one more label of the star.
RECURSIVE DomainEnd(_, _, _)
DomainEnd(text, pos, labels) ==
    LET next == LabelDot(text, pos)
        longer == IF next = -1 THEN -1 ELSE DomainEnd(text, next, labels + 1)
    IN  IF longer # -1 THEN longer
        ELSE IF labels >= 1 THEN TldPathEnd(text, pos)
        ELSE -1

\* The protocol alternatives "https?://" and "ftp://" at pos: the position
\* after the protocol, else -1.
ProtocolEnd(text, pos) ==
    LET rest == Lower(Slice(text, pos, pos + 8))
    IN  IF StartsWith(rest, S_https) THEN pos + 8
        ELSE IF StartsWith(rest, S_http) THEN pos + 7
        ELSE IF StartsWith(rest, S_ftp) THEN pos + 6
        ELSE -1

\* self.regex.match(text, pos): the end of the match, else -1.
UrlPatternMatch(text, pos) ==
    LET before == IF pos > 0 THEN text[pos] ELSE ""
        protocol == ProtocolEnd(text, pos)
        first == IF protocol = -1 THEN -1 ELSE DomainEnd(text, protocol, 0)
    IN  IF before \in {"@", "(", "["} \/ ~WordBoundary(text, pos) THEN -1
        ELSE IF first # -1 THEN first
        ELSE IF before \in {"@", "."} THEN -1
        ELSE DomainEnd(text, pos, 0)

\* self.regex.finditer(text) from pos on: the spans <<start, end>>
RECURSIVE UrlPatternFindIter(_, _)
UrlPatternFindIter(text, pos) ==
    IF pos >= Len(text) THEN <<>>
    ELSE LET e == UrlPatternMatch(text, pos)
         IN  IF e = -1 THEN UrlPatternFindIter(text, pos + 1)
             ELSE << <<pos, e>> >> \o UrlPatternFindIter(text, e)

\* re.sub(r"[\]\)\.,;:>]+$", "", url)
RECURSIVE TrimUrlJunk(_)
TrimUrlJunk(url) ==
    IF url # <<>> /\ url[Len(url)] \in {"]", ")", ".", ",", ";", ":", ">"}
    THEN TrimUrlJunk(SubSeq(url, 1, Len(url) - 1))
    ELSE url

\* re.sub(r"[^a-z0-9]+", "", s.lower())
Squeeze(s) == SelectSeq(Lower(s), LAMBDA c : c \in LowerLetters \cup Digits)

\* s.endswith(p)
EndsWith(s, p) == Len(p) <= Len(s) /\ SubSeq(s, Len(s) - Len(p) + 1, Len(s)) = p

\* url.split("/", 1)[0].lower()
HostOf(url) ==
    LET slash == Find(url, S_slash, 0)
    IN  Lower(IF slash = -1 THEN url ELSE Slice(url, 0, slash))

\* url_lower.startswith(("http://", "https://", "ftp://", "www."))
HasProtocol(url) ==
    \E p \in {S_http, S_https, S_ftp, S_www} : StartsWith(Lower(url), p)

\* The window checks of iter_filth for a host that ends with "point.com":
\* whether the match at start..end is skipped as a fragment of a split
\* "sharepoint.com".
IsSharePointFragment(text, start, end, host) ==
    LET window == 20
        lookback == Slice(text, IF start - window > 0 THEN start - window ELSE 0, start)
        lookahead == Slice(text, end, end + window)
        prev == Squeeze(lookback)
        next_ == Squeeze(lookahead)
        combined_prev == StartsWith(Slice(prev, Len(prev) - 6, Len(prev)) \o host,
                                    S_sharepoint_com)
        combined_next == StartsWith(host \o Slice(next_, 0, 6), S_sharepoint_com)
        combined == Slice(prev, Len(prev) - 30, Len(prev)) \o Squeeze(host)
                    \o Slice(next_, 0, 30)
        span == Squeeze(Slice(text, start - 1500, end + 1500))
        doc_squeezed == Squeeze(text)
        newline_before == {i \in 0..(start - 1) : text[i + 1] = "\n"}
        line_start == IF newline_before = {} THEN 0
                      ELSE 1 + CHOOSE i \in newline_before : \A j \in newline_before : j <= i
        line_end == IF Find(text, <<"\n">>, end) = -1 THEN Len(text)
                    ELSE Find(text, <<"\n">>, end)
        line == Squeeze(Slice(text, line_start, line_end))
    IN  \/ EndsWith(prev, S_share) \/ StartsWith(next_, S_share)
        \/ combined_prev \/ combined_next
        \/ Contains(combined, S_sharepointcom)
        \/ /\ host \in {<<"e","p","o","i","n","t",".","c","o","m">>, <<"h","a","r","e","p","o","i","n","t",".","c","o","m">>, S_point_com}
           /\ \/ Contains(span, S_sharepoint)
              \/ Contains(doc_squeezed, S_sharepoint)
              \/ Contains(line, S_sharepoint)

\* The body of the loop of BareDomainDetector.iter_filth for the matches
\* from the i-th on.
RECURSIVE BareDomainLoop(_, _, _)
BareDomainLoop(text, matches, i) ==
    IF i > Len(matches) THEN <<>>
    ELSE LET start == matches[i][1]
             end == matches[i][2]
             url == TrimUrlJunk(Slice(text, start, end))
             host == HostOf(url)
         IN  IF \/ (~HasProtocol(url) /\ \E k \in DOMAIN url : IsUpperChar(url[k]))
                \/ (EndsWith(host, S_point_com) /\ IsSharePointFragment(text, start, end, host))
             THEN BareDomainLoop(text, matches, i + 1)
             ELSE <<Filth("UrlFilth", start, end, url, T_url)>>
                  \o BareDomainLoop(text, matches, i + 1)

\* list(BareDomainDetector().iter_filth(text))
BareDomainIterFilth(text) == BareDomainLoop(text, UrlPatternFindIter(text, 0), 1)

-----------------------------------------------------------------------------
(* Specification SpecBareDomain: a document is typed word by word, the     *)
(* words separated by a space or a line break, and then scanned by         *)
(* BareDomainDetector.                                                     *)

MaxWords == 3

\* The pieces of a split "sharepoint.com", hosts that end in "point.com",
\* other words, and a filler as wide as the look-around window.
DomainWords ==
    { <<"s","h","a","r","e">>, <<"s","h","a","r">>, <<"s">>, <<"s","e","e">>,
      <<"p","o","i","n","t",".","c","o","m">>, <<"e","p","o","i","n","t",".","c","o","m">>, <<"h","a","r","e","p","o","i","n","t",".","c","o","m">>,
      <<"x",".","p","o","i","n","t",".","c","o","m">>, <<"P","o","i","n","t",".","c","o","m">>, <<"h","t","t","p",":","/","/","p","o","i","n","t",".","c","o","m">>,
      <<"s","h","a","r","e","p","o","i","n","t">>, Repeat("-", 20) }

InitBareDomain ==
    /\ document = <<>>
    /\ alphabet = {}
    /\ resource = NoFile
    /\ detector = [name |-> T_url, kind |-> "_build_url_detector", words |-> 0]
    /\ yielded = [done |-> FALSE, raised |-> FALSE, out |-> <<>>]
    /\ IdleReplacer
    /\ IdlePipeline

\* One more word of the document.
TypeWord ==
    /\ ~yielded.done
    /\ detector.words < MaxWords
    /\ \E word \in DomainWords, sep \in {" ", "\n"} :
          document' = IF document = <<>> THEN word ELSE document \o <<sep>> \o word
    /\ detector' = [detector EXCEPT !.words = @ + 1]
    /\ UNCHANGED <<alphabet, resource, yielded>>
    /\ UNCHANGED replacerVars
    /\ UNCHANGED pipelineVars

\* list(BareDomainDetector().iter_filth(text))
ScanBareDomain ==
    /\ ~yielded.done
    /\ document # <<>>
    /\ yielded' = [done |-> TRUE, raised |-> FALSE, out |-> BareDomainIterFilth(document)]
    /\ UNCHANGED <<alphabet, resource, detector, document>>
    /\ UNCHANGED replacerVars
    /\ UNCHANGED pipelineVars

NextBareDomain == TypeWord \/ ScanBareDomain

SpecBareDomain == InitBareDomain /\ [][NextBareDomain]_vars

\* The hosts a split "sharepoint.com" leaves behind.
FragmentHosts == {S_point_com, <<"e","p","o","i","n","t",".","c","o","m">>, <<"h","a","r","e","p","o","i","n","t",".","c","o","m">>}

\* The squeezed 20 characters before and after the span of a match.
SqueezedBefore(f) == Squeeze(Slice(document, f.beg - 20, f.beg))

SqueezedAfter(f) == Squeeze(Slice(document, f.end, f.end + 20))

\* The letters host lacks to be "sharepoint.com".
MissingLetters(host) == Slice(S_sharepoint_com, 0, Len(S_sharepoint_com) - Len(host))

\* The characters before complete the host to "sharepoint.com".
CompletedBefore(f) == EndsWith(SqueezedBefore(f) \o HostOf(f.text), S_sharepoint_com)

\* The characters after do: they start with the letters the host lacks.
CompletedAfter(f) ==
    /\ EndsWith(S_sharepoint_com, HostOf(f.text))
    /\ StartsWith(SqueezedAfter(f), MissingLetters(HostOf(f.text)))

\* No match has a host that is a fragment while the squeezed document
\* contains "sharepoint".
NoFragmentInSharePointDocument ==
    \A i \in DOMAIN yielded.out :
        HostOf(yielded.out[i].text) \in FragmentHosts
            => ~Contains(Squeeze(document), S_sharepoint)

\* C18: BareDomainDetector yields no match whose host is point.com,
\* epoint.com or harepoint.com when the squeezed document contains
\* "sharepoint", and no match for a host ending in "point.com" that the
\* squeezed 20 characters before or after it complete to "sharepoint.com".
C18_SharePointFragments ==
    yielded.done =>
        /\ NoFragmentInSharePointDocument
        /\ \A i \in DOMAIN yielded.out :
              EndsWith(HostOf(yielded.out[i].text), S_point_com)
                  => ~CompletedBefore(yielded.out[i]) /\ ~CompletedAfter(yielded.out[i])

\* The part that holds: the document-level rule, the completion by the
\* characters before, and on the side after only the word "share".
FragmentsCompletedBefore ==
    yielded.done =>
        /\ NoFragmentInSharePointDocument
        /\ \A i \in DOMAIN yielded.out :
              EndsWith(HostOf(yielded.out[i].text), S_point_com)
                  => /\ ~CompletedBefore(yielded.out[i])
                     /\ ~StartsWith(SqueezedAfter(yielded.out[i]), S_share)


-----------------------------------------------------------------------------
(* The en_US entity detectors in the runs of SpecPipeline.                 *)

\* The lowercase keys the en_US file of a category lists.
EnglishSourceKeys(name) ==
    LET file == DataFile(data_dir, "en_US", name)
        named == SelectSeq(file.entries, LAMBDA entry : "match" \in DOMAIN entry)
    IN  IF file.exists /\ file.valid
        THEN {Lower(Strip(named[i].match)) : i \in DOMAIN named}
        ELSE {}

\* The categories by priority: location > organization > name.
CategoryPriority == <<T_location, T_organization, T_name>>

\* The built categories, by rank, whose file lists the key.
EnglishListing(key) ==
    {r \in DOMAIN CategoryPriority :
        /\ \E i \in DOMAIN last_run.detector_list :
              last_run.detector_list[i].name = CategoryPriority[r]
        /\ key \in EnglishSourceKeys(CategoryPriority[r])}

\* The built detectors that keep the key in their entity list.
EnglishHolders(key) ==
    LET lists == EntityLists(last_run.detector_list)
    IN  {lists[i][1] : i \in {j \in DOMAIN lists :
                                \E k \in DOMAIN lists[j][2] : Lower(lists[j][2][k]) = key}}

\* C19: for en_US an entity listed by several built categories is kept by
\* exactly one built detector, the one of highest priority (location >
\* organization > name), and no two matches of the entity detectors cover
\* the same occurrence.
C19_EnglishCategoryPriority ==
    (last_run.done /\ last_run.locale = "en_US") =>
        /\ \A r \in DOMAIN CategoryPriority :
             \A key \in EnglishSourceKeys(CategoryPriority[r]) :
                Cardinality(EnglishListing(key)) >= 2 =>
                    EnglishHolders(key) =
                        {CategoryPriority[CHOOSE t \in EnglishListing(key) :
                                             \A q \in EnglishListing(key) : t <= q]}
        /\ \A i, j \in DOMAIN last_run.filths :
              ( /\ i # j
                /\ last_run.filths[i].detector_name \in Range(CategoryPriority)
                /\ last_run.filths[j].detector_name \in Range(CategoryPriority) )
              => <<last_run.filths[i].beg, last_run.filths[i].end>>
                     # <<last_run.filths[j].beg, last_run.filths[j].end>>

\* What the code does for en_US: every built detector keeps all it can
\* load from its own file, whatever the other categories list.
EnglishKeepsOwnList ==
    (last_run.done /\ last_run.locale = "en_US") =>
        \A i \in DOMAIN last_run.detector_list :
            last_run.detector_list[i].name \in Range(CategoryPriority) =>
                last_run.detector_list[i].entities =
                    JSONLoadEntities(DataFile(data_dir, "en_US",
                                              last_run.detector_list[i].name),
                                     EnglishCommonWords)


-----------------------------------------------------------------------------
(* Specification SpecCustomWord: a CustomWordDetector is built for a       *)
(* literal, a document is typed character by character and then scanned.   *)

\* Literals that can and cannot overlap themselves, one to be stripped,
\* and None.
CustomLiterals ==
    { <<"a","a">>, <<"a","b">>, <<"a","b","a">>, <<"a">>, <<" ","a","a"," ">>, <<>> }

CustomAlphabet == {"a", "b", " "}

InitCustomWord ==
    /\ \E custom_text \in CustomLiterals : detector = CustomWordDetector(custom_text)
    /\ document = <<>>
    /\ alphabet = CustomAlphabet
    /\ resource = NoFile
    /\ yielded = [done |-> FALSE, raised |-> FALSE, out |-> <<>>]
    /\ IdleReplacer
    /\ IdlePipeline

\* One more character of the document.
TypeCustomChar ==
    /\ ~yielded.done
    /\ Len(document) < MaxTextLen
    /\ \E c \in alphabet : document' = Append(document, c)
    /\ UNCHANGED <<alphabet, resource, detector, yielded>>
    /\ UNCHANGED replacerVars
    /\ UNCHANGED pipelineVars

\* list(detector.iter_filth(text))
ScanCustomWord ==
    /\ ~yielded.done
    /\ yielded' = [done |-> TRUE, raised |-> FALSE,
                   out |-> CustomWordIterFilth(detector, document)]
    /\ UNCHANGED <<alphabet, resource, detector, document>>
    /\ UNCHANGED replacerVars
    /\ UNCHANGED pipelineVars

NextCustomWord == TypeCustomChar \/ ScanCustomWord

SpecCustomWord == InitCustomWord /\ [][NextCustomWord]_vars

\* C20: the matches CustomWordDetector.iter_filth yields are pairwise
\* non-overlapping spans, whatever the literal and the text.
C20_CustomWordNonOverlap ==
    yielded.done =>
        \A i, j \in DOMAIN yielded.out :
            i # j => ~(/\ yielded.out[i].beg < yielded.out[j].end
                       /\ yielded.out[j].beg < yielded.out[i].end)

\* What the code does: it yields every occurrence of the stripped literal,
\* overlapping ones included, by ascending start.
CustomWordEveryOccurrence ==
    yielded.done =>
        /\ {yielded.out[i].beg : i \in DOMAIN yielded.out} =
              IF detector.custom_text = <<>> THEN {}
              ELSE {p \in 0..(Len(document) - Len(detector.custom_text)) :
                       Slice(document, p, p + Len(detector.custom_text))
                           = detector.custom_text}
        /\ \A i \in DOMAIN yielded.out :
              /\ yielded.out[i].end = yielded.out[i].beg + Len(detector.custom_text)
              /\ yielded.out[i].text = detector.custom_text
              /\ \A j \in DOMAIN yielded.out : i < j => yielded.out[i].beg < yielded.out[j].beg


-----------------------------------------------------------------------------
(* Specification SpecCli: the command line scrubs a text                   *)
(* (_run_scrub of sanitize_text/cli/main.py).                              *)

\* --locale: not given (""), or one of the two choices.
CliLocales == {"", "nl_NL", "en_US"}

S_unknown_error == "Unknown error"

\* The rest of _run_scrub after scrub_text returned outcome: sections are
\* the locales of the "Results for <locale>" sections of the returned
\* text, warnings the <<locale, message>> of the "Warning: Processing
\* failed for locale" lines (not verbose), failed the same for the
\* "[Failed processing locale" lines (verbose).  An error message of
\* scrub_text is "error".
RunScrub(locale, outcome, verbose) ==
    LET locales_to_process == IF locale # "" THEN <<locale>> ELSE <<"en_US", "nl_NL">>
        texts == {r[1] : r \in outcome.results}
        failed_locales == SelectSeq(locales_to_process, LAMBDA loc : loc \notin texts)
        failure_messages == [i \in DOMAIN failed_locales |->
                                <<failed_locales[i],
                                  IF failed_locales[i] \in outcome.errors
                                  THEN "error" ELSE S_unknown_error>>]
    IN  [sections |-> SelectSeq(locales_to_process, LAMBDA loc : loc \in texts),
         warnings |-> IF verbose THEN <<>> ELSE failure_messages,
         failed |-> IF verbose THEN failure_messages ELSE <<>>]

InitCli ==
    /\ data_dir \in DataDirs
    /\ scrubadub_spacy = FALSE
    /\ dutch_loaded_entities = {}
    /\ last_run = NoRun
    /\ pc = <<>>
    /\ building = <<>>
    /\ IdleReplacer
    /\ IdleDetect

\* _run_scrub(input_text=, locale=, detectors=, custom=None, verbose=).
\* An exception of scrub_text leaves _run_scrub; in verbose mode
\* collect_filth then builds a scrubber of its own.
CallRunScrub ==
    \E input_text \in ScrubDocs, locale \in CliLocales,
       selected_detectors \in ScrubSelections, verbose \in BOOLEAN,
       library_raises \in BOOLEAN :
        \E current_locale \in {IF locale = "" THEN S_default_locale ELSE locale} :
        \E s \in {SetupScrubber(current_locale, selected_detectors, <<>>,
                               data_dir, scrubadub_spacy, dutch_loaded_entities)} :
        \E cleaned \in {ScrubberClean(s.scrubber.detector_list, input_text)} :
        \E outcome \in {ScrubText(current_locale, s, cleaned, library_raises)} :
        \E collected \in {IF verbose /\ ~outcome.raised
                          THEN SetupScrubber(current_locale, selected_detectors, <<>>,
                                             data_dir, scrubadub_spacy, s.cache)
                          ELSE s} :
            /\ dutch_loaded_entities' = collected.cache
            /\ last_run' = [done |-> TRUE, locale |-> locale, text |-> input_text,
                            library_raises |-> library_raises, verbose |-> verbose,
                            outcome |-> outcome,
                            cli |-> IF outcome.raised
                                    THEN [raised |-> TRUE]
                                    ELSE [raised |-> FALSE,
                                          echo |-> RunScrub(locale, outcome, verbose),
                                          found |-> IF verbose
                                                    THEN ProcessFilth(
                                                           NewReplacer(replacer.algorithm,
                                                                       replacer.modulus),
                                                           ScrubberIterFilth(
                                                             collected.scrubber.detector_list,
                                                             input_text)).out
                                                    ELSE <<>>]]
            /\ UNCHANGED <<data_dir, scrubadub_spacy, pc, building>>
            /\ UNCHANGED replacerVars
            /\ UNCHANGED detectVars

NextCli == CallRunScrub

SpecCli == InitCli /\ [][NextCli]_vars

\* C21: run without --locale, with nothing failing, the text is processed
\* for en_US and for nl_NL: scrub_text returns a text for each, the output
\* has a "Results for" section for each, and no failure warning is printed.
C21_BothLocalesWithoutLocale ==
    (last_run.done /\ last_run.locale = "" /\ ~last_run.cli.raised) =>
        /\ {r[1] : r \in last_run.outcome.results} = {"en_US", "nl_NL"}
        /\ last_run.cli.echo.sections = <<"en_US", "nl_NL">>
        /\ last_run.cli.echo.warnings = <<>>
        /\ last_run.cli.echo.failed = <<>>

\* What the code does without --locale: only the default locale nl_NL is
\* processed, and en_US is reported as failed with "Unknown error".
OnlyDefaultLocaleWithoutLocale ==
    (last_run.done /\ last_run.locale = "" /\ ~last_run.cli.raised) =>
        /\ {r[1] : r \in last_run.outcome.results} = {S_default_locale}
        /\ last_run.cli.echo.sections = <<S_default_locale>>
        /\ last_run.cli.echo.warnings \o last_run.cli.echo.failed
              = << <<"en_US", S_unknown_error>> >>

\* With --locale the one section is that of the locale and nothing is
\* reported as failed.
OneSectionWithLocale ==
    (last_run.done /\ last_run.locale # "" /\ ~last_run.cli.raised) =>
        /\ last_run.cli.echo.sections = <<last_run.locale>>
        /\ last_run.cli.echo.warnings = <<>>
        /\ last_run.cli.echo.failed = <<>>


-----------------------------------------------------------------------------
(* EntityManager (sanitize_text/add_entity/main.py)                        *)

\* ord(c) for the characters of entity values
CodePoint(c) ==
    IF c \in LowerLetters THEN 96 + IndexOf(LowerAscii, c)
    ELSE IF c \in UpperLetters THEN 64 + IndexOf(UpperAscii, c)
    ELSE IF c \in Digits THEN 47 + IndexOf(DigitChars, c)
    ELSE 32

\* a < b for two str
RECURSIVE StrLess(_, _)
StrLess(a, b) ==
    IF b = <<>> THEN FALSE
    ELSE IF a = <<>> THEN TRUE
    ELSE IF Head(a) = Head(b) THEN StrLess(Tail(a), Tail(b))
    ELSE CodePoint(Head(a)) < CodePoint(Head(b))

\* entities.sort(key=lambda x: x["match"].lower()): the sort is stable, an
\* entry goes behind the entries whose key is not greater.
RECURSIVE InsertByMatch(_, _)
InsertByMatch(sorted, entry) ==
    IF sorted = <<>> THEN <<entry>>
    ELSE IF StrLess(Lower(entry.match), Lower(Head(sorted).match))
    THEN <<entry>> \o sorted
    ELSE <<Head(sorted)>> \o InsertByMatch(Tail(sorted), entry)

RECURSIVE SortByMatch(_)
SortByMatch(entities) ==
    IF entities = <<>> THEN <<>>
    ELSE InsertByMatch(SortByMatch(SubSeq(entities, 1, Len(entities) - 1)),
                       entities[Len(entities)])

\* self.files: the entity types with a file
EntityTypes == {"city", "name"}

\* An entity file of the data directory: content is the parsed list when
\* the file is readable JSON, else whatever the file holds.
EntityFile(exists, readable, valid, content) ==
    [exists |-> exists, readable |-> readable, valid |-> valid, content |-> content]

\* EntityManager.load_json
LoadJson(file) ==
    IF file.exists /\ file.readable /\ file.valid THEN file.content ELSE <<>>

\* EntityManager.save_json when the write succeeds
SaveJson(data) == EntityFile(TRUE, TRUE, TRUE, data)

\* An add_entity that appends without sorting.
AddEntityAppendOnly(files, entity_type, value, save_ok) ==
    IF entity_type \notin EntityTypes THEN [returned |-> FALSE, files |-> files]
    ELSE LET entities == LoadJson(files[entity_type])
             new_entry == [match |-> value,
                           filth_type |-> IF entity_type = "city" THEN "location"
                                          ELSE entity_type]
         IN  IF \E i \in DOMAIN entities : Lower(entities[i].match) = Lower(value)
             THEN [returned |-> FALSE, files |-> files]
             ELSE IF save_ok
             THEN [returned |-> TRUE,
                   files |-> [files EXCEPT ![entity_type] =
                                 SaveJson(Append(entities, new_entry))]]
             ELSE [returned |-> FALSE, files |-> files]

\* EntityManager.add_entity(entity_type, value): what it returns and the
\* files afterwards.  save_ok is whether open(file_path, "w") and the dump
\* succeed.
AddEntity(files, entity_type, value, save_ok) ==
    IF entity_type \notin EntityTypes THEN [returned |-> FALSE, files |-> files]
    ELSE LET entities == LoadJson(files[entity_type])
             new_entry == [match |-> value,
                           filth_type |-> IF entity_type = "city" THEN "location"
                                          ELSE entity_type]
         IN  IF \E i \in DOMAIN entities : Lower(entities[i].match) = Lower(value)
             THEN [returned |-> FALSE, files |-> files]
             ELSE IF save_ok
             THEN [returned |-> TRUE,
                   files |-> [files EXCEPT ![entity_type] =
                                 SaveJson(SortByMatch(Append(entities, new_entry)))]]
             ELSE [returned |-> FALSE, files |-> files]

-----------------------------------------------------------------------------
(* Specification SpecAddEntity: entities are added to the entity files     *)
(* one call after another.                                                 *)

MaxEntities == 3

EntityValues ==
    { <<"a">>, <<"A">>, <<"Z">>, <<"a","b">>, <<"B","a">> }

\* The cities file is sorted and duplicate-free; the names file is
\* missing, not readable, not JSON, or sorted and duplicate-free.
InitAddEntity ==
    /\ \E cities \in { <<>>, << [match |-> <<"A">>, filth_type |-> "location"],
                               [match |-> <<"b">>, filth_type |-> "location"] >> },
          names \in { EntityFile(FALSE, FALSE, FALSE, <<>>),
                      EntityFile(TRUE, FALSE, TRUE,
                                 << [match |-> <<"a">>, filth_type |-> "name"] >>),
                      EntityFile(TRUE, TRUE, FALSE, <<"[{\"match\": \"a\"},">>),
                      EntityFile(TRUE, TRUE, TRUE,
                                 << [match |-> <<"a">>, filth_type |-> "name"] >>) } :
          resource = [city |-> EntityFile(TRUE, TRUE, TRUE, cities), name |-> names]
    /\ last_run = NoRun
    /\ alphabet = {}
    /\ detector = EntityDetector(T_name, "NameFilth", {}, <<>>)
    /\ document = <<>>
    /\ yielded = [done |-> FALSE, raised |-> FALSE, out |-> <<>>]
    /\ data_dir = [nl_NL |-> [location |-> NoFile, organization |-> NoFile, name |-> NoFile],
                   en_US |-> [location |-> NoFile, organization |-> NoFile, name |-> NoFile]]
    /\ scrubadub_spacy = FALSE
    /\ dutch_loaded_entities = {}
    /\ pc = <<>>
    /\ building = <<>>
    /\ IdleReplacer

\* entity_manager.add_entity(entity_type, value)
AddEntityCall ==
    \E entity_type \in EntityTypes \cup {"street"}, value \in EntityValues,
       save_ok \in BOOLEAN :
        /\ \A t \in EntityTypes : Len(resource[t].content) < MaxEntities
        /\ \E r \in {AddEntity(resource, entity_type, value, save_ok)} :
              /\ resource' = r.files
              /\ last_run' = [done |-> TRUE, entity_type |-> entity_type,
                              value |-> value, save_ok |-> save_ok,
                              before |-> resource, returned |-> r.returned]
        /\ UNCHANGED <<alphabet, detector, document, yielded>>
        /\ UNCHANGED <<data_dir, scrubadub_spacy, dutch_loaded_entities, pc, building>>
        /\ UNCHANGED replacerVars

NextAddEntity == AddEntityCall

SpecAddEntity == InitAddEntity /\ [][NextAddEntity]_vars

\* The file is readable JSON.
Loadable(file) == file.exists /\ file.readable /\ file.valid

\* The list is sorted case-insensitively by "match" and no two matches
\* are equal ignoring case.
SortedNoDuplicates(entities) ==
    \A i, j \in DOMAIN entities :
        i < j => StrLess(Lower(entities[i].match), Lower(entities[j].match))

\* C22: every entity file that started sorted case-insensitively and
\* duplicate-free is so after any sequence of add_entity calls, and a call
\* whose value already exists ignoring case returns False and leaves the
\* file unchanged.
C22_SortedDuplicateFree ==
    /\ \A t \in EntityTypes :
          Loadable(resource[t]) => SortedNoDuplicates(resource[t].content)
    /\ (last_run.done /\ last_run.entity_type \in EntityTypes) =>
          LET before == last_run.before[last_run.entity_type]
          IN  (/\ Loadable(before)
               /\ \E i \in DOMAIN before.content :
                     Lower(before.content[i].match) = Lower(last_run.value))
              => /\ ~last_run.returned
                 /\ resource[last_run.entity_type] = before

\* C22 witness: a value was added before the last entry of a file of three
\* or more, in which the order of the code points is not the order ignoring
\* case.
C22_Witness ==
    /\ last_run.done
    /\ last_run.returned
    /\ last_run.entity_type = "city"
    /\ Len(resource.city.content) >= 3
    /\ resource.city.content[Len(resource.city.content)].match # last_run.value
    /\ \E i, j \in DOMAIN resource.city.content :
          /\ i < j
          /\ StrLess(resource.city.content[j].match, resource.city.content[i].match)


\* C30: add_entity never removes entries: when the target file exists but
\* cannot be read or parsed, the call does not write it and its content is
\* left as it was.
C30_UnreadableFileKept ==
    (last_run.done /\ last_run.entity_type \in EntityTypes) =>
        LET before == last_run.before[last_run.entity_type]
        IN  (before.exists /\ ~Loadable(before)) =>
                resource[last_run.entity_type] = before

\* The part that holds: the entries of a file that loads are all kept.
LoadableEntriesKept ==
    (last_run.done /\ last_run.entity_type \in EntityTypes) =>
        LET before == last_run.before[last_run.entity_type]
        IN  Loadable(before) =>
                \A i \in DOMAIN before.content :
                    \E j \in DOMAIN resource[last_run.entity_type].content :
                        resource[last_run.entity_type].content[j] = before.content[i]


\* ---------------------------------------------------------------------
\* _filter_overlapping_candidates on its own: any list of candidate
\* spans, as iter_filth would hand it over (start < end inside the text;
\* the same span may come twice).
\* ---------------------------------------------------------------------

MaxCandidates == 3

MaxPos == MaxTextLen - 1

\* (start, end, original_slice)
CandidateSpans ==
    { <<s, e, [i \in 1..(e - s) |-> "x"]>> : s \in 0..MaxPos, e \in 0..MaxPos } \
        { c \in { <<s, e, [i \in 1..(e - s) |-> "x"]>> : s \in 0..MaxPos, e \in 0..MaxPos } :
            c[1] >= c[2] }

InitFilter ==
    /\ document = <<>>
    /\ yielded = [done |-> FALSE, raised |-> FALSE, out |-> <<>>]
    /\ alphabet = {}
    /\ resource = [exists |-> FALSE, valid |-> FALSE, entries |-> <<>>]
    /\ detector = EntityDetector(T_name, "NameFilth", {}, <<>>)
    /\ IdleReplacer
    /\ IdlePipeline

\* candidates.append((start, end, original_slice))
AppendCandidate ==
    /\ ~yielded.done
    /\ Len(document) < MaxCandidates
    /\ \E c \in CandidateSpans : document' = Append(document, c)
    /\ UNCHANGED <<alphabet, resource, detector, yielded>>
    /\ UNCHANGED replacerVars
    /\ UNCHANGED pipelineVars

\* self._filter_overlapping_candidates(candidates)
FilterCandidates ==
    /\ ~yielded.done
    /\ yielded' = [done |-> TRUE, raised |-> FALSE,
                   out |-> FilterOverlappingCandidates(document)]
    /\ UNCHANGED <<alphabet, resource, detector, document>>
    /\ UNCHANGED replacerVars
    /\ UNCHANGED pipelineVars

NextFilter == AppendCandidate \/ FilterCandidates

SpecFilter == InitFilter /\ [][NextFilter]_vars

\* The two spans have a position in common.
Intersects(c, k) == c[1] < k[2] /\ k[1] < c[2]

\* k is at least as long as c and, when equally long, starts no later.
Outranks(k, c) ==
    \/ k[2] - k[1] > c[2] - c[1]
    \/ (k[2] - k[1] = c[2] - c[1] /\ k[1] <= c[1])

\* C23: the result of _filter_overlapping_candidates is a subset of the
\* candidates, its spans are disjoint, and every candidate left out
\* intersects a kept candidate that is at least as long and, when equally
\* long, starts no later, so that none could be added without an overlap.
C23_LongestMatchMaximal ==
    yielded.done =>
        /\ \A k \in DOMAIN yielded.out :
              \E i \in DOMAIN document : document[i] = yielded.out[k]
        /\ \A k \in DOMAIN yielded.out : \A l \in DOMAIN yielded.out :
              k # l => ~Intersects(yielded.out[k], yielded.out[l])
        /\ \A i \in DOMAIN document :
              \/ \E k \in DOMAIN yielded.out : yielded.out[k] = document[i]
              \/ \E k \in DOMAIN yielded.out :
                    /\ Intersects(document[i], yielded.out[k])
                    /\ Outranks(yielded.out[k], document[i])

\* C23 witness: a short candidate collected first was left out for a longer
\* one collected later, and another for one of its own length to its left.
C23_Witness ==
    /\ yielded.done
    /\ Len(document) = MaxCandidates
    /\ Len(yielded.out) = 1
    /\ document[1] # yielded.out[1]
    /\ document[1][2] - document[1][1] < yielded.out[1][2] - yielded.out[1][1]
    /\ \E i \in DOMAIN document :
          /\ document[i][2] - document[i][1] = yielded.out[1][2] - yielded.out[1][1]
          /\ document[i][1] > yielded.out[1][1]


\* ---------------------------------------------------------------------
\* iter_filth over texts with U+0130, whose lowercase form is two code
\* points long: text.lower() is longer than text.
\* ---------------------------------------------------------------------

DottedAlphabet == {"I_dot", "A", "a", "&", " "}

InitDetectDotted ==
    /\ alphabet = DottedAlphabet
    /\ DetectorUnderTest
    /\ IdleReplacer
    /\ IdlePipeline

SpecDetectDotted == InitDetectDotted /\ [][NextDetect]_vars

\* The candidates the automaton loop of iter_filth has collected when the
\* normalization fallback starts.
AutomatonCandidates ==
    AutomatonLoop(detector, document,
                  HitSeq(AutomatonHits(detector.automaton, Lower(document))), 1,
                  [seen_spans |-> {}, candidates |-> <<>>, raised |-> FALSE]).candidates

\* The match comes from the automaton loop.
FromAutomaton(filth) ==
    \E i \in DOMAIN AutomatonCandidates :
        /\ AutomatonCandidates[i][1] = filth.beg
        /\ AutomatonCandidates[i][2] = filth.end

\* The span lies in the text, the match text is the slice of the text, and
\* the slice lowercased is the lowercase form of a loaded entity.
SpanOfLoadedEntity(filth) ==
    /\ 0 <= filth.beg
    /\ filth.beg < filth.end
    /\ filth.end <= Len(document)
    /\ filth.text = Slice(document, filth.beg, filth.end)
    /\ \E i \in DOMAIN detector.entities :
          Lower(Slice(document, filth.beg, filth.end)) = Lower(detector.entities[i])

\* C24: every match of the automaton path has 0 <= beg < end <= len(text),
\* its text is text[beg:end] verbatim, and text[beg:end] lowercased is the
\* lowercase form of a loaded entity, for every Unicode text.
C24_AutomatonSpanIsEntity ==
    (yielded.done /\ ~yielded.raised) =>
        \A k \in DOMAIN yielded.out :
            FromAutomaton(yielded.out[k]) => SpanOfLoadedEntity(yielded.out[k])

\* The part that holds: in a text whose lowercase form has the length of
\* the text, the scan ends without an exception and every match of the
\* automaton path is the span of a loaded entity.
SameLengthLowerSpanIsEntity ==
    (yielded.done /\ Len(Lower(document)) = Len(document)) =>
        /\ ~yielded.raised
        /\ \A k \in DOMAIN yielded.out :
              FromAutomaton(yielded.out[k]) => SpanOfLoadedEntity(yielded.out[k])

\* iter_filth ends without an exception.
IterFilthNeverRaises == ~yielded.raised


\* ---------------------------------------------------------------------
\* The normalization fallback of iter_filth: documents put together from
\* written forms of the multi-word entity "Al en La" and from separators.
\* ---------------------------------------------------------------------

MaxPieces == 3

S_Al_en_La == <<"A","l"," ","e","n"," ","L","a">>

\* The entity with "&", with "&amp;", with zero-width spaces inside its
\* words, and with runs of several spaces between its words.
WrittenForms ==
    { <<"A","l"," ","&"," ","L","a">>, <<"A","l"," ","&","a","m","p",";"," ","L","a">>, <<"A","ZWSP","l"," ","e","n"," ","L","ZWSP","a">>, <<"A","l"," "," ","e","n"," "," "," ","L","a">> }

Separators == { <<" ">>, <<",">>, <<"x">>, <<"&">>, <<"ZWSP">> }

RECURSIVE Concat(_)
Concat(pieces) ==
    IF pieces = <<>> THEN <<>> ELSE Head(pieces) \o Concat(Tail(pieces))

NormalizedDocs ==
    { Concat(q) : q \in SeqsUpTo(WrittenForms \cup {S_Al_en_La} \cup Separators, MaxPieces) }

InitNormalized ==
    /\ alphabet = {}
    /\ resource = JSONFile(<< S_Al_en_La >>)
    /\ \E name \in {T_location, T_name} :
          detector = DutchDetector(name, resource, {}).detector
    /\ document \in NormalizedDocs
    /\ yielded = [done |-> FALSE, raised |-> FALSE, out |-> <<>>]
    /\ IdleReplacer
    /\ IdlePipeline

NextNormalized == Scan

SpecNormalized == InitNormalized /\ [][NextNormalized]_vars

\* The 0-based indices at which piece occurs in text.
ExactOccurrences(piece, text) ==
    { i \in 0..(Len(text) - Len(piece)) : SubSeq(text, i + 1, i + Len(piece)) = piece }

\* The span the fallback maps an occurrence of the normalized entity at
\* index i of the normalized document to.
MappedSpan(norm_entity, i) == MapNormalizedSpan(document, i, Len(norm_entity))

\* C25: for every occurrence of a normalized entity at index i of the
\* normalized text, _map_normalized_span(text, i, len(normalized entity))
\* returns a span of the text whose slice, normalized by the same rules,
\* is the normalized entity.
C25_MappedSliceNormalizesToEntity ==
    yielded.done =>
        \A entity_lower \in detector.multi_word_entities :
            \A i \in ExactOccurrences(NormalizeForEntity(entity_lower),
                                   NormalizeForEntity(document)) :
                LET span == MappedSpan(NormalizeForEntity(entity_lower), i)
                IN  /\ span # <<-1, -1>>
                    /\ NormalizeForEntity(Slice(document, span[1], span[2]))
                           = NormalizeForEntity(entity_lower)

\* The document has no "&" and does not start with white space.
PlainDocument ==
    /\ "&" \notin Range(document)
    /\ (StripZW(document) # <<>> => ~IsSpaceChar(Head(StripZW(document))))

\* The part that holds: in a document without "&" that does not start with
\* white space, the slice of the mapped span normalizes to the entity.
PlainMappedSliceNormalizesToEntity ==
    (yielded.done /\ PlainDocument) =>
        \A entity_lower \in detector.multi_word_entities :
            \A i \in ExactOccurrences(NormalizeForEntity(entity_lower),
                                   NormalizeForEntity(document)) :
                LET span == MappedSpan(NormalizeForEntity(entity_lower), i)
                IN  /\ span # <<-1, -1>>
                    /\ NormalizeForEntity(Slice(document, span[1], span[2]))
                           = NormalizeForEntity(entity_lower)

\* The occurrence of form at index i is delimited by non-letters.
Delimited(form, i) ==
    /\ (i > 0 => ~LettersPattern(document[i]))
    /\ (i + Len(form) < Len(document) => ~LettersPattern(document[i + Len(form) + 1]))

\* One match of the scan covers exactly [beg, end).
OneMatchCovers(beg, end) ==
    Cardinality({ k \in DOMAIN yielded.out :
                    yielded.out[k].beg = beg /\ yielded.out[k].end = end }) = 1

\* C26: an occurrence of the multi-word entity that is delimited by
\* non-letters and written with "&", with "&amp;", with zero-width
\* characters inside its words or with several spaces between its words
\* yields one match whose span covers exactly that occurrence.
C26_WrittenFormsMatched ==
    yielded.done =>
        \A form \in WrittenForms : \A i \in ExactOccurrences(form, document) :
            Delimited(form, i) => OneMatchCovers(i, i + Len(form))

\* The part that holds: in a document without "&", without the entity in
\* its plain form and not starting with white space, the forms with
\* zero-width characters and with several spaces are matched, unless a
\* zero-width character stands right before the occurrence.
PlainWrittenFormsMatched ==
    (yielded.done /\ PlainDocument /\ ExactOccurrences(S_Al_en_La, document) = {}) =>
        \A form \in WrittenForms : \A i \in ExactOccurrences(form, document) :
            (Delimited(form, i) /\ (i > 0 => document[i] \notin ZeroWidthChars))
                => OneMatchCovers(i, i + Len(form))


\* ---------------------------------------------------------------------
\* The URL / markdown context test of iter_filth: documents put together
\* from an entity, a written form of a multi-word entity that the
\* fallback finds, pieces of URLs and a markdown link.
\* ---------------------------------------------------------------------

UrlPieces ==
    { S_La, <<"A","l","&","L","a">>, <<"[","L","a","]">>, <<"(","h","t","t","p",":","/","/","x",".","n","l","/","L","a",")">>, <<"h","t","t","p",":","/","/">>, <<"w","w","w",".">>, <<"x",".","n","l","/">>,
      <<" ">>, <<",">>, <<"(">> }

UrlContextDocs == { Concat(q) : q \in SeqsUpTo(UrlPieces, MaxPieces) }

InitUrlContext ==
    /\ alphabet = {}
    /\ resource = JSONFile(<< S_La, S_Al_en_La >>)
    /\ \E name \in {T_location, T_name} :
          detector = DutchDetector(name, resource, {}).detector
    /\ document \in UrlContextDocs
    /\ yielded = [done |-> FALSE, raised |-> FALSE, out |-> <<>>]
    /\ IdleReplacer
    /\ IdlePipeline

NextUrlContext == Scan

SpecUrlContext == InitUrlContext /\ [][NextUrlContext]_vars

\* The whitespace-delimited token of text around [start, end), lowercased.
RECURSIVE TokenLeft(_, _)
TokenLeft(text, l_pos) ==
    IF l_pos > 0 /\ ~IsSpaceChar(text[l_pos]) THEN TokenLeft(text, l_pos - 1) ELSE l_pos

RECURSIVE TokenRight(_, _)
TokenRight(text, r_pos) ==
    IF r_pos < Len(text) /\ ~IsSpaceChar(text[r_pos + 1])
    THEN TokenRight(text, r_pos + 1) ELSE r_pos

WhitespaceToken(text, start, end) ==
    Lower(Slice(text, TokenLeft(text, start), TokenRight(text, end)))

\* The token contains "://", starts with "www." or looks like a domain
\* with a path.
UrlLike(token) ==
    \/ Contains(token, <<":", "/", "/">>)
    \/ StartsWith(token, S_www)
    \/ DomainLike(token)

\* C27: no match of iter_filth lies inside a whitespace-delimited token
\* that contains "://", starts with "www." or looks like a domain with a
\* path, the link text and the target of a markdown link included.
C27_NoMatchInUrlToken ==
    yielded.done =>
        \A k \in DOMAIN yielded.out :
            ~UrlLike(WhitespaceToken(document, yielded.out[k].beg, yielded.out[k].end))

\* The part that holds: no match lies inside such a token when the token
\* is taken to end at white space and at the characters [ ] ( ) < > as well.
NoMatchInBracketToken ==
    yielded.done =>
        \A k \in DOMAIN yielded.out :
            ~InUrlContext(document, yielded.out[k].beg, yielded.out[k].end)


\* ---------------------------------------------------------------------
\* SharePointUrlDetector
\* (sanitize_text/utils/custom_detectors/sharepoint_url_detector.py)
\* ---------------------------------------------------------------------

\* [a-z0-9.-] under re.IGNORECASE
IsSharePointHostChar(c) == IsDomainChar(c) \/ c \in {".", "-"}

\* (?:[^\s<>)\]]|\n)
IsSharePointPathChar(c) ==
    \/ c = "\n"
    \/ (~IsSpaceChar(c) /\ c \notin {"<", ">", ")", "]"})

\* self.regex.match(text, pos): the end of the match, else -1.  The host
\* part may end before any "sharepoint.com/" that only host characters
\* separate from the protocol; the path then runs to the first character
\* that is no path character, wherever the host part ended.
SharePointMatch(text, pos) ==
    LET rest == Lower(Slice(text, pos, pos + 8))
        protocol == IF StartsWith(rest, S_https) THEN pos + 8
                    ELSE IF StartsWith(rest, S_http) THEN pos + 7
                    ELSE -1
        hosts == IF protocol = -1 THEN {}
                 ELSE { q \in protocol..Len(text) :
                          /\ \A k \in (protocol + 1)..q : IsSharePointHostChar(text[k])
                          /\ Lower(Slice(text, q, q + 15)) = S_sharepoint_slash
                          /\ q + 15 < Len(text)
                          /\ IsSharePointPathChar(text[q + 16]) }
    IN  IF ~WordBoundary(text, pos) \/ hosts = {} THEN -1
        ELSE RunOf(text, 15 + (CHOOSE q \in hosts : \A r \in hosts : q <= r),
                   IsSharePointPathChar)

\* self.regex.finditer(text) from pos on: the spans <<start, end>>
RECURSIVE SharePointFindIter(_, _)
SharePointFindIter(text, pos) ==
    IF pos >= Len(text) THEN <<>>
    ELSE LET e == SharePointMatch(text, pos)
         IN  IF e = -1 THEN SharePointFindIter(text, pos + 1)
             ELSE << <<pos, e>> >> \o SharePointFindIter(text, e)

\* list(SharePointUrlDetector().iter_filth(text))
SharePointIterFilth(text) ==
    LET matches == SharePointFindIter(text, 0)
    IN  [i \in DOMAIN matches |->
            Filth("UrlFilth", matches[i][1], matches[i][2],
                  TrimTrailingJunk(RemoveSpaces(Slice(text, matches[i][1], matches[i][2]))),
                  <<"s","h","a","r","e","p","o","i","n","t","_","u","r","l">>)]

\* A SharePoint URL, the rest of a wrapped URL, words of the text around
\* it, and a second URL.
SharePointWords ==
    { <<"h","t","t","p","s",":","/","/","a",".","s","h","a","r","e","p","o","i","n","t",".","c","o","m","/","x">>, <<"H","T","T","P",":","/","/","S","h","a","r","e","P","o","i","n","t",".","c","o","m","/">>, <<"y","/","z",".">>, <<"E","n","d">>,
      <<"(","h","t","t","p","s",":","/","/","s","h","a","r","e","p","o","i","n","t",".","c","o","m","/","v",")">>, <<"s","h","a","r","e","p","o","i","n","t",".","c","o","m","/","w">> }

InitSharePoint ==
    /\ document = <<>>
    /\ alphabet = {}
    /\ resource = NoFile
    /\ detector = [name |-> <<"s","h","a","r","e","p","o","i","n","t","_","u","r","l">>,
                   kind |-> "SharePointUrlDetector", words |-> 0]
    /\ yielded = [done |-> FALSE, raised |-> FALSE, out |-> <<>>]
    /\ IdleReplacer
    /\ IdlePipeline

\* One more word of the document, after a line break, a space or nothing.
TypeLine ==
    /\ ~yielded.done
    /\ detector.words < MaxWords
    /\ \E word \in SharePointWords, sep \in {<<"\n">>, <<" ">>, <<>>} :
          document' = IF document = <<>> THEN word ELSE document \o sep \o word
    /\ detector' = [detector EXCEPT !.words = @ + 1]
    /\ UNCHANGED <<alphabet, resource, yielded>>
    /\ UNCHANGED replacerVars
    /\ UNCHANGED pipelineVars

\* list(SharePointUrlDetector().iter_filth(text))
ScanSharePoint ==
    /\ ~yielded.done
    /\ document # <<>>
    /\ yielded' = [done |-> TRUE, raised |-> FALSE, out |-> SharePointIterFilth(document)]
    /\ UNCHANGED <<alphabet, resource, detector, document>>
    /\ UNCHANGED replacerVars
    /\ UNCHANGED pipelineVars

NextSharePoint == TypeLine \/ ScanSharePoint

SpecSharePoint == InitSharePoint /\ [][NextSharePoint]_vars

\* The number of line breaks in s.
Newlines(s) == Cardinality({ i \in DOMAIN s : s[i] = "\n" })

\* C28: every span matched by SharePointUrlDetector contains at most one
\* newline, so that text after a second line break is never part of the
\* match.
C28_AtMostOneNewline ==
    yielded.done =>
        \A k \in DOMAIN yielded.out :
            Newlines(Slice(document, yielded.out[k].beg, yielded.out[k].end)) <= 1

\* The part that holds: a span holds no white space other than line
\* breaks, and it runs over every line break up to the first other white
\* space or closing character.
SpanEndsAtOtherWhitespace ==
    yielded.done =>
        \A k \in DOMAIN yielded.out :
            /\ \A i \in (yielded.out[k].beg + 1)..yielded.out[k].end :
                  IsSharePointPathChar(document[i])
            /\ yielded.out[k].end < Len(document) =>
                  ~IsSharePointPathChar(document[yielded.out[k].end + 1])


\* ---------------------------------------------------------------------
\* run_multi_locale_scrub with a post_processor_factory and include_filth:
\* the scrubber of setup_scrubber substitutes with factory(), collect_filth
\* with a HashedPIIReplacer() of its own.
\* ---------------------------------------------------------------------

\* post_processor_factory: None (DEFAULT_POST_PROCESSOR_FACTORY), or a
\* callable that returns a HashedPIIReplacer with another algorithm or
\* modulus.
PostProcessorFactories ==
    { [given |-> FALSE, algorithm |-> "md5", modulus |-> 10000],
      [given |-> TRUE, algorithm |-> "sha256", modulus |-> 10000],
      [given |-> TRUE, algorithm |-> "md5", modulus |-> 1000] }

\* scrubber.clean(text) with the post-processor of the factory: the filths
\* as clean substitutes them in the text.
ScrubberCleanWith(post_processor_factory, detector_list, text) ==
    LET cleaned == ScrubberClean(detector_list, text)
    IN  [raised |-> cleaned.raised,
         filths |-> ProcessFilth(NewReplacer(post_processor_factory.algorithm,
                                             post_processor_factory.modulus),
                                 cleaned.filths).out]

\* collect_filth(text, locale=, selected_detectors=, custom_text=)[locale],
\* with collected the scrubber it set up.
CollectFilthOf(collected, text) ==
    ProcessFilth(NewReplacer("md5", 10000),
                 ScrubberIterFilth(collected.scrubber.detector_list, text)).out

\* A caller calls run_multi_locale_scrub(text=, locale=,
\* per_locale_detectors=, custom_text=, post_processor_factory=,
\* include_filth=).
CallRunMultiLocaleScrubWithFactory ==
    \E text \in ScrubDocs, locale \in ScrubLocales,
       detectors_for_locale \in ScrubSelections, custom_text \in PipelineCustomTexts,
       post_processor_factory \in PostProcessorFactories,
       include_filth \in BOOLEAN, library_raises \in BOOLEAN :
        \E current_locale \in {IF locale = "" THEN S_default_locale ELSE locale} :
        \E s \in {SetupScrubber(current_locale, detectors_for_locale, custom_text,
                               data_dir, scrubadub_spacy, dutch_loaded_entities)} :
        \E cleaned \in {ScrubberCleanWith(post_processor_factory,
                                          s.scrubber.detector_list, text)} :
        \E collected \in {IF include_filth /\ ~(library_raises \/ cleaned.raised)
                          THEN SetupScrubber(current_locale, detectors_for_locale,
                                             custom_text, data_dir, scrubadub_spacy,
                                             s.cache)
                          ELSE s} :
        \E filth \in {IF include_filth /\ ~(library_raises \/ cleaned.raised)
                      THEN CollectFilthOf(collected, text)
                      ELSE <<>>} :
            /\ dutch_loaded_entities' = collected.cache
            /\ last_run' = [done |-> TRUE, locale |-> locale, text |-> text,
                            library_raises |-> library_raises,
                            include_filth |-> include_filth,
                            post_processor_factory |-> post_processor_factory,
                            outcome |-> RunMultiLocaleScrub(current_locale, s, cleaned,
                                                            library_raises, filth)]
            /\ UNCHANGED <<data_dir, scrubadub_spacy, pc, building>>
            /\ UNCHANGED replacerVars
            /\ UNCHANGED detectVars

NextScrubFilth == CallRunMultiLocaleScrubWithFactory

SpecScrubFilth == InitScrub /\ [][NextScrubFilth]_vars

\* Every filth of the LocaleResult carries the replacement string that
\* stands in the scrubbed text for its match.
FilthCarriesSubstitution(result) ==
    \A i \in DOMAIN result[3] :
        \E j \in DOMAIN result[2] :
            /\ result[2][j].beg = result[3][i].beg
            /\ result[2][j].end = result[3][i].end
            /\ result[2][j].replacement_string = result[3][i].replacement_string

\* C29: with include_filth, every filth of LocaleResult.filth carries the
\* replacement_string that was substituted for its match in the scrubbed
\* text of the same LocaleResult, for every post_processor_factory.
C29_FilthCarriesSubstitution ==
    (last_run.done /\ last_run.include_filth) =>
        \A result \in last_run.outcome.results : FilthCarriesSubstitution(result)

\* The part that holds: it does when the caller supplies no
\* post_processor_factory.
DefaultFactoryFilthCarriesSubstitution ==
    (last_run.done /\ last_run.include_filth /\ ~last_run.post_processor_factory.given) =>
        \A result \in last_run.outcome.results : FilthCarriesSubstitution(result)

====
